---- MODULE Spec2Model ----
(***************************************************************************)
(* A model of the minevaapen data core: the SQLite tables, the seed        *)
(* synchronizer, the weapon/program repository (fetchWeapons,              *)
(* fetchProgramUsage, upsertWeapon, deleteWeapon) and the transaction      *)
(* wrapper they run in.                                                    *)
(***************************************************************************)
EXTENDS Integers, Sequences, FiniteSets, TLC

VARIABLES
    organizations,    \* rows of table organizations
    programs,         \* rows of table programs
    weapons,          \* rows of table weapons
    weapon_programs,  \* rows of table weapon_programs
    seedPromise,      \* seed.ts: let seedPromise
    lastCall,         \* the most recent repository call and its outcome
    columns,          \* the columns of each table; no columns: the table does not exist
    seeding,          \* progress of seedDatabase and the ensureSeeded calls of this process
    layout,           \* RootLayout: isMounted, databaseReady, the pending then/catch
    storage,          \* backup files, and the restores and RESTORED events so far
    connection,       \* db.ts: dbInstance, the handles opened and those being closed
    hooks,            \* useWeapons and useOrganizations: subscriptions, loads, state
    form              \* the weapon form: selectedPrograms and what feeds it

appVars == <<columns, seeding, layout, storage>>

uiVars == <<connection, hooks, form>>

vars == <<organizations, programs, weapons, weapon_programs, seedPromise, lastCall,
          columns, seeding, layout, storage, connection, hooks, form>>

\* SQL NULL / JavaScript null.  Column values are written as strings (prices
\* too), so that every value compares with NULL.  A property left out of an input
\* object is a field the record does not have.
NULL == "NULL"

\* Longest program-selection list an upsertWeapon input carries in the model.
MaxPrograms == 2

\* JavaScript's `obj.field ?? dflt`.
OrElse(obj, field, dflt) ==
    IF field \in DOMAIN obj /\ obj[field] # NULL THEN obj[field] ELSE dflt

\* Mutant: a flag that is present counts as set.
BoolToIntPresent(obj, field) == IF field \in DOMAIN obj THEN 1 ELSE 0

\* JavaScript's `obj.flag ? 1 : 0` for an optional boolean property.
BoolToInt(obj, field) == IF field \in DOMAIN obj /\ obj[field] = TRUE THEN 1 ELSE 0

RECURSIVE SeqToSet(_)
SeqToSet(s) == IF s = <<>> THEN {} ELSE {Head(s)} \cup SeqToSet(Tail(s))

(***************************************************************************)
(* Bundled reference and demonstration data.                               *)
(***************************************************************************)
OrganizationSeeds ==
    { [id |-> "943942102", name |-> "Det Frivillige Skyttervesen", shortName |-> "DFS",
       country |-> "NO", orgNumber |-> "943942102"],
      [id |-> "988539155", name |-> "Dynamisk Sportsskyting Norge", shortName |-> "DSSN",
       country |-> "NO", orgNumber |-> "988539155"] }

\* The programs the demonstration links refer to: two of DFS, two of DSSN.
ProgramSeeds ==
    { [id |-> "1",   organizationId |-> "943942102", name |-> "Baneskyting",
       weaponCategory |-> "rifle", isReserveAllowed |-> TRUE],
      [id |-> "31",  organizationId |-> "943942102", name |-> "Jaktfelt",
       weaponCategory |-> "rifle", isReserveAllowed |-> TRUE],
      [id |-> "158", organizationId |-> "988539155", name |-> "Production Optics",
       weaponCategory |-> "pistol", isReserveAllowed |-> TRUE],
      [id |-> "160", organizationId |-> "988539155", name |-> "Standard",
       weaponCategory |-> "pistol", isReserveAllowed |-> TRUE] }

WeaponSeeds ==
    { [id |-> "weapon-001", displayName |-> "CZ Shadow 2", type |-> "pistol",
       manufacturer |-> "CZ", model |-> "Shadow 2", serialNumber |-> "CZSHADOW2-001",
       acquisitionDate |-> "2022-03-15", acquisitionPrice |-> "19000",
       weaponCardRef |-> "Vapenkort 12345", notes |-> "Matchpistol"],
      [id |-> "weapon-002", displayName |-> "Tikka T3x Super Varmint", type |-> "rifle",
       manufacturer |-> "Tikka", model |-> "T3x Super Varmint", serialNumber |-> "TIKKA-T3X-042",
       acquisitionDate |-> "2020-08-20", acquisitionPrice |-> "23000",
       weaponCardRef |-> "Vapenkort 67890", notes |-> "DFS baneskyting"] }

WeaponProgramSeeds ==
    { [weaponId |-> "weapon-001", programId |-> "158", status |-> "approved", isReserve |-> FALSE],
      [weaponId |-> "weapon-001", programId |-> "160", status |-> "approved", isReserve |-> TRUE],
      [weaponId |-> "weapon-002", programId |-> "1",   status |-> "approved", isReserve |-> FALSE],
      [weaponId |-> "weapon-002", programId |-> "31",  status |-> "approved", isReserve |-> FALSE] }

WeaponIds == {w.id : w \in WeaponSeeds}
OrganizationIds == {o.id : o \in OrganizationSeeds}
\* A program id no row of table programs carries.
UnknownProgramId == "999"
ProgramIds == {p.id : p \in ProgramSeeds} \cup {UnknownProgramId}
Statuses == {"approved", "pending", "proposed"}

(***************************************************************************)
(* The inputs the model feeds to upsertWeapon.                             *)
(***************************************************************************)
\* Program selections {programId, status?, isReserve?}.
ProgramSelections ==
    { [programId |-> "158"],
      [programId |-> "158", status |-> "pending",  isReserve |-> TRUE],
      [programId |-> "160", status |-> "approved", isReserve |-> TRUE],
      [programId |-> UnknownProgramId, status |-> "proposed", isReserve |-> FALSE] }

\* The lists of at most MaxPrograms selections; a list names no selection twice
\* (it may name a programId twice, with different values).
ProgramLists ==
    {ps \in UNION {[1..n -> ProgramSelections] : n \in 0..MaxPrograms} :
        \A i, j \in DOMAIN ps : ps[i] = ps[j] => i = j}

\* The weapon fields of an input: one with every optional field given, one with
\* every optional field left out.
WeaponFieldInputs ==
    { [displayName |-> "cz 75", type |-> "pistol", manufacturer |-> "CZ", model |-> "75",
       serialNumber |-> "SN-1", acquisitionDate |-> "2024-01-01", acquisitionPrice |-> "100",
       weaponCardRef |-> "VK-1", notes |-> "n", operationMode |-> "manuell",
       caliber |-> "9mm", ownershipStatus |-> "loanIn", loanContactName |-> "Ola",
       loanStartDate |-> "2024-02-01", loanEndDate |-> "2024-03-01"],
      [displayName |-> "Beretta 92", type |-> "pistol", ownershipStatus |-> "own"] }

UpsertWeaponInputs ==
    { [id |-> i, fields |-> f, programs |-> ps] :
        i \in WeaponIds, f \in WeaponFieldInputs, ps \in ProgramLists }

(***************************************************************************)
(* SQL statements, as functions from a database value to a database value. *)
(* A database value is [weapons, weapon_programs].                         *)
(***************************************************************************)
\* INSERT INTO weapons (10 columns) ... ON CONFLICT(id) DO UPDATE SET (9 columns).
\* A column the statement does not name takes its default on insert and keeps
\* its value on update.
UpsertWeaponRow(db, input) ==
    LET f == input.fields
        written == [displayName      |-> f.displayName,
                    type             |-> f.type,
                    manufacturer     |-> OrElse(f, "manufacturer", NULL),
                    model            |-> OrElse(f, "model", NULL),
                    serialNumber     |-> OrElse(f, "serialNumber", NULL),
                    acquisitionDate  |-> OrElse(f, "acquisitionDate", NULL),
                    acquisitionPrice |-> OrElse(f, "acquisitionPrice", NULL),
                    weaponCardRef    |-> OrElse(f, "weaponCardRef", NULL),
                    notes            |-> OrElse(f, "notes", NULL)]
        defaults == [operationMode |-> NULL, caliber |-> NULL, ownershipStatus |-> "own",
                     loanContactName |-> NULL, loanStartDate |-> NULL, loanEndDate |-> NULL]
        old == {w \in db.weapons : w.id = input.id}
        fresh == [id |-> input.id] @@ written @@ defaults
        updated(w) == [id |-> w.id] @@ written @@
                      [operationMode |-> w.operationMode, caliber |-> w.caliber,
                       ownershipStatus |-> w.ownershipStatus,
                       loanContactName |-> w.loanContactName,
                       loanStartDate |-> w.loanStartDate, loanEndDate |-> w.loanEndDate]
    IN  [db EXCEPT !.weapons =
            IF old = {} THEN db.weapons \cup {fresh}
            ELSE (db.weapons \ old) \cup {updated(w) : w \in old}]

\* Mutant: the statement deletes nothing.
DeleteWeaponProgramsNone(db, weaponId) == db

\* DELETE FROM weapon_programs WHERE weaponId = ?
DeleteWeaponPrograms(db, weaponId) ==
    [db EXCEPT !.weapon_programs = {wp \in db.weapon_programs : wp.weaponId # weaponId}]

\* DELETE FROM weapons WHERE id = ?
DeleteWeaponRow(db, weaponId) ==
    [db EXCEPT !.weapons = {w \in db.weapons : w.id # weaponId}]

\* Mutant: every link is written as 'approved', whatever status was submitted.
UpsertWeaponProgramApproved(db, weaponId, program) ==
    LET row == [weaponId  |-> weaponId,
                programId |-> program.programId,
                status    |-> "approved",
                isReserve |-> BoolToInt(program, "isReserve")]
        old == {wp \in db.weapon_programs :
                    wp.weaponId = weaponId /\ wp.programId = program.programId}
    IN  [db EXCEPT !.weapon_programs = (db.weapon_programs \ old) \cup {row}]

\* INSERT INTO weapon_programs ... ON CONFLICT(weaponId, programId) DO UPDATE SET
\* status, isReserve; status defaults to 'approved', isReserve to 0.
UpsertWeaponProgram(db, weaponId, program) ==
    LET row == [weaponId  |-> weaponId,
                programId |-> program.programId,
                status    |-> OrElse(program, "status", "approved"),
                isReserve |-> BoolToInt(program, "isReserve")]
        old == {wp \in db.weapon_programs :
                    wp.weaponId = weaponId /\ wp.programId = program.programId}
    IN  [db EXCEPT !.weapon_programs = (db.weapon_programs \ old) \cup {row}]

\* The database after each statement of upsertWeapon's transaction body, in order:
\* the weapon upsert, the link delete, then one link upsert per submitted program.
RECURSIVE LinkSteps(_, _, _)
LinkSteps(db, weaponId, progs) ==
    IF progs = <<>> THEN <<>>
    ELSE LET next == UpsertWeaponProgram(db, weaponId, Head(progs))
         IN  <<next>> \o LinkSteps(next, weaponId, Tail(progs))

UpsertWeaponSteps(db, input) ==
    LET s1 == UpsertWeaponRow(db, input)
        s2 == DeleteWeaponPrograms(s1, input.id)
    IN  <<s1, s2>> \o LinkSteps(s2, input.id, input.programs)

\* deleteWeapon's transaction body: the link delete, then the weapon delete.
DeleteWeaponSteps(db, weaponId) ==
    LET s1 == DeleteWeaponPrograms(db, weaponId)
    IN  <<s1, DeleteWeaponRow(s1, weaponId)>>

(***************************************************************************)
(* The transaction wrapper.  steps[k] is the database after the k-th       *)
(* statement of the body; failAt = 0 means that no statement fails, and    *)
(* failAt = k that the k-th statement fails (a constraint violation or an  *)
(* I/O error of the engine).                                               *)
(***************************************************************************)
\* Mutant: the body run statement by statement in autocommit mode, so that the
\* statements before the failing one stay applied.
RunWithoutTransaction(db, steps, failAt) ==
    IF failAt = 0 THEN [db |-> steps[Len(steps)], ok |-> TRUE]
    ELSE [db |-> IF failAt = 1 THEN db ELSE steps[failAt - 1], ok |-> FALSE]

\* Commit when the body completes; roll back and reject when a statement fails.
RunWithinTransaction(db, steps, failAt) ==
    IF failAt = 0 THEN [db |-> steps[Len(steps)], ok |-> TRUE]
    ELSE [db |-> db, ok |-> FALSE]

(***************************************************************************)
(* Repository reads: the SQL of buildWeaponQuery and fetchProgramUsage,    *)
(* evaluated over the tables.                                              *)
(***************************************************************************)
\* The row a LEFT JOIN supplies when no row of the right table matches.
NullWeaponProgram == [weaponId |-> NULL, programId |-> NULL, status |-> NULL, isReserve |-> NULL]
NullProgram == [id |-> NULL, organizationId |-> NULL, name |-> NULL,
                weaponCategory |-> NULL, isReserveAllowed |-> NULL]

\* COLLATE NOCASE over the names of the model: the names in ascending
\* case-insensitive order.
CollationOrder ==
    <<"Baneskyting", "Beretta 92", "cz 75", "CZ Shadow 2", "Jaktfelt",
      "Production Optics", "Standard", "Tikka T3x Super Varmint">>

NoCaseRank(name) == CHOOSE i \in DOMAIN CollationOrder : CollationOrder[i] = name

\* ORDER BY key COLLATE NOCASE.  Rows with equal keys come in an order SQLite
\* does not fix; no property below reads it.
RECURSIVE OrderBy(_, _)
OrderBy(rows, column) ==
    IF rows = {} THEN <<>>
    ELSE LET first == CHOOSE r \in rows :
                        \A o \in rows : NoCaseRank(r[column]) <= NoCaseRank(o[column])
         IN  <<first>> \o OrderBy(rows \ {first}, column)

\* The rows of a group, one after the other.
RECURSIVE GroupRows(_)
GroupRows(rows) ==
    IF rows = {} THEN <<>>
    ELSE LET r == CHOOSE x \in rows : TRUE IN <<r>> \o GroupRows(rows \ {r})

\* SUM(expr) over the rows of a group; expr[r] is the value of the expression in row r.
RECURSIVE Sum(_, _)
Sum(rows, expr) ==
    IF rows = {} THEN 0
    ELSE LET r == CHOOSE x \in rows : TRUE IN expr[r] + Sum(rows \ {r}, expr)

\* FROM weapons w LEFT JOIN weapon_programs wp ON wp.weaponId = w.id
\*                LEFT JOIN programs p ON p.id = wp.programId
WeaponJoin ==
    LET wps(w) == {wp \in weapon_programs : wp.weaponId = w.id}
        ps(wp) == {p \in programs : p.id = wp.programId}
        withWp == UNION {IF wps(w) = {} THEN {[w |-> w, wp |-> NullWeaponProgram]}
                         ELSE {[w |-> w, wp |-> wp] : wp \in wps(w)} : w \in weapons}
    IN  UNION {IF ps(r.wp) = {} THEN {[w |-> r.w, wp |-> r.wp, p |-> NullProgram]}
               ELSE {[w |-> r.w, wp |-> r.wp, p |-> p] : p \in ps(r.wp)} : r \in withWp}

\* `if (filters.x)`: the filter is present and neither null nor empty.
HasFilter(filters, field) ==
    field \in DOMAIN filters /\ filters[field] # NULL /\ filters[field] # ""

\* Mutant: the subquery is not correlated with the weapon.
OrganizationConditionUncorrelated(w, organizationId) ==
    \E wpf \in weapon_programs : \E pf \in programs :
        pf.id = wpf.programId /\ pf.organizationId = organizationId

\* EXISTS (SELECT 1 FROM weapon_programs wpf INNER JOIN programs pf ON pf.id = wpf.programId
\*         WHERE wpf.weaponId = w.id AND pf.organizationId = ?)
OrganizationCondition(w, organizationId) ==
    \E wpf \in weapon_programs : \E pf \in programs :
        pf.id = wpf.programId /\ wpf.weaponId = w.id /\ pf.organizationId = organizationId

\* EXISTS (SELECT 1 FROM weapon_programs wpp WHERE wpp.weaponId = w.id AND wpp.programId = ?)
ProgramCondition(w, programId) ==
    \E wpp \in weapon_programs : wpp.weaponId = w.id /\ wpp.programId = programId

\* EXISTS (SELECT 1 FROM weapon_programs wpr WHERE wpr.weaponId = w.id AND wpr.isReserve = 1)
ReserveOnlyCondition(w) ==
    \E wpr \in weapon_programs : wpr.weaponId = w.id /\ wpr.isReserve = 1

\* Mutant: EXISTS ... AND wpn.isReserve = 0 in place of NOT EXISTS ... = 1.
NonReserveConditionSomeLink(w) ==
    \E wpn \in weapon_programs : wpn.weaponId = w.id /\ wpn.isReserve = 0

\* NOT EXISTS (SELECT 1 FROM weapon_programs wpn WHERE wpn.weaponId = w.id AND wpn.isReserve = 1)
NonReserveCondition(w) ==
    ~ \E wpn \in weapon_programs : wpn.weaponId = w.id /\ wpn.isReserve = 1

\* Mutant: conditions.join(' OR ').
WhereClauseOr(w, filters) ==
    LET org == HasFilter(filters, "organizationId")
        prog == HasFilter(filters, "programId")
        only == "reserveFilter" \in DOMAIN filters /\ filters.reserveFilter = "reserveOnly"
        non == "reserveFilter" \in DOMAIN filters /\ filters.reserveFilter = "nonReserve"
    IN  \/ ~ (org \/ prog \/ only \/ non)
        \/ org /\ OrganizationCondition(w, filters.organizationId)
        \/ prog /\ ProgramCondition(w, filters.programId)
        \/ only /\ ReserveOnlyCondition(w)
        \/ non /\ NonReserveCondition(w)

\* conditions.join(' AND ')
WhereClause(w, filters) ==
    /\ HasFilter(filters, "organizationId") => OrganizationCondition(w, filters.organizationId)
    /\ HasFilter(filters, "programId") => ProgramCondition(w, filters.programId)
    /\ ("reserveFilter" \in DOMAIN filters /\ filters.reserveFilter = "reserveOnly")
            => ReserveOnlyCondition(w)
    /\ ("reserveFilter" \in DOMAIN filters /\ filters.reserveFilter = "nonReserve")
            => NonReserveCondition(w)

\* A JSON null, and CASE WHEN p.id IS NOT NULL THEN json_object(...) END.
JsonNull == [null |-> TRUE]
ProgramJson(r) ==
    IF r.p.id # NULL
    THEN [programId |-> r.p.id, programName |-> r.p.name,
          organizationId |-> r.p.organizationId,
          isReserve |-> r.wp.isReserve, status |-> r.wp.status]
    ELSE JsonNull

\* json_group_array(...) over the rows of one group.
JsonGroupArray(rows) ==
    LET seq == GroupRows(rows) IN [i \in DOMAIN seq |-> ProgramJson(seq[i])]

\* Mutant: the nulls are not dropped.
ParseProgramsKeepNulls(raw) ==
    [i \in DOMAIN raw |->
        IF raw[i] = JsonNull THEN JsonNull
        ELSE [programId |-> raw[i].programId, programName |-> raw[i].programName,
              organizationId |-> raw[i].organizationId,
              isReserve |-> raw[i].isReserve # 0, status |-> raw[i].status]]

\* parsePrograms: drop the nulls, turn isReserve into a boolean.
ParsePrograms(raw) ==
    LET kept == SelectSeq(raw, LAMBDA item : item # JsonNull)
    IN  [i \in DOMAIN kept |->
            [programId |-> kept[i].programId, programName |-> kept[i].programName,
             organizationId |-> kept[i].organizationId,
             isReserve |-> kept[i].isReserve # 0, status |-> kept[i].status]]

\* The SELECT of buildWeaponQuery: WHERE, GROUP BY w.id, ORDER BY w.displayName.
WeaponQueryRows(filters) ==
    LET rows == {r \in WeaponJoin : WhereClause(r.w, filters)}
        groups == {r.w.id : r \in rows}
        out(id) == LET g == {r \in rows : r.w.id = id}
                       w == (CHOOSE r \in g : TRUE).w
                   IN  [id |-> w.id, displayName |-> w.displayName, type |-> w.type,
                        manufacturer |-> w.manufacturer, model |-> w.model,
                        serialNumber |-> w.serialNumber,
                        acquisitionDate |-> w.acquisitionDate,
                        acquisitionPrice |-> w.acquisitionPrice,
                        weaponCardRef |-> w.weaponCardRef, notes |-> w.notes,
                        programsJson |-> JsonGroupArray(g)]
    IN  OrderBy({out(id) : id \in groups}, "displayName")

\* fetchWeapons: each row with programs parsed from its programsJson.
FetchWeapons(filters) ==
    LET rows == WeaponQueryRows(filters)
    IN  [i \in DOMAIN rows |-> rows[i] @@ [programs |-> ParsePrograms(rows[i].programsJson)]]

\* CASE WHEN wp.status = 'approved' THEN 1 ELSE 0 END
ApprovedCase(r) == IF r.wp.status = "approved" THEN 1 ELSE 0

\* Mutant: the reserve count ignores the status.
ReserveCaseAnyStatus(r) == IF r.wp.status # NULL /\ r.wp.isReserve = 1 THEN 1 ELSE 0

\* CASE WHEN wp.status = 'approved' AND wp.isReserve = 1 THEN 1 ELSE 0 END
ReserveCase(r) == IF r.wp.status = "approved" /\ r.wp.isReserve = 1 THEN 1 ELSE 0

\* fetchProgramUsage: FROM programs p LEFT JOIN weapon_programs wp ON wp.programId = p.id
\* [WHERE p.organizationId = ?] GROUP BY p.id ORDER BY p.name.
FetchProgramUsage(organizationId) ==
    LET wps(p) == {wp \in weapon_programs : wp.programId = p.id}
        join == UNION {IF wps(p) = {} THEN {[p |-> p, wp |-> NullWeaponProgram]}
                       ELSE {[p |-> p, wp |-> wp] : wp \in wps(p)} : p \in programs}
        rows == {r \in join : (organizationId # NULL /\ organizationId # "")
                                 => r.p.organizationId = organizationId}
        groups == {r.p.id : r \in rows}
        out(id) == LET g == {r \in rows : r.p.id = id}
                       p == (CHOOSE r \in g : TRUE).p
                   IN  [id |-> p.id, name |-> p.name, organizationId |-> p.organizationId,
                        weaponCategory |-> p.weaponCategory,
                        isReserveAllowed |-> p.isReserveAllowed,
                        weaponCount |->
                            Sum(g, [r \in g |-> ApprovedCase(r)]),
                        reserveCount |->
                            Sum(g, [r \in g |-> ReserveCase(r)])]
    IN  OrderBy({out(id) : id \in groups}, "name")

Database == [weapons |-> weapons, weapon_programs |-> weapon_programs]

\* RootLayout before it is mounted.
NotMounted == [isMounted |-> FALSE, databaseReady |-> FALSE, pending |-> FALSE]

\* The backups directory is empty, nothing restored, no RESTORED event emitted.
NoBackups == [backups |-> <<>>, restored |-> 0, emitted |-> 0]

\* The hooks that subscribe to RESTORED.
HookNames == {"useWeapons", "useOrganizations"}

\* A hook that is not mounted.  subscriptions: the RESTORED listeners it has
\* registered; started: the loads it has started, load n being the n-th; pending:
\* the loads whose fetch has not settled; result: the load whose rows the state
\* holds (0: the initial []); loading, failed: the loading and error state.
UnmountedHook ==
    [mounted |-> FALSE, subscriptions |-> 0, started |-> 0, pending |-> {},
     result |-> 0, loading |-> TRUE, failed |-> FALSE]

\* No hook is mounted.
NoHooks == [h \in HookNames |-> UnmountedHook]

\* The state of a weapon form that has not loaded or taken anything (the useState
\* initial values of ManageWeaponScreen and of its hooks).
EmptyFields ==
    [displayName |-> "", type |-> "pistol", manufacturer |-> NULL, model |-> NULL,
     serialNumber |-> NULL, acquisitionDate |-> NULL, acquisitionPrice |-> NULL,
     weaponCardRef |-> NULL, notes |-> NULL]

\* No weapon form is open.  weaponId: the route parameter (NULL: a new weapon);
\* weapon: useWeapon has delivered the weapon; memberOrganizationIds, programs:
\* what useOrganizations and usePrograms hold (programs by id); pending: the loads
\* that have not settled; failed: a load has set an error; selectedPrograms: the
\* selection map; touched: a program control has been used; before: the links
\* the weapon had in the store when the form was opened; opens: how often the
\* screen has been opened.
NoForm ==
    [open |-> FALSE, weaponId |-> NULL, weapon |-> FALSE, fields |-> EmptyFields,
     memberOrganizationIds |-> {}, programs |-> {}, pending |-> {}, failed |-> FALSE,
     selectedPrograms |-> <<>>, touched |-> FALSE, before |-> {}, opens |-> 0]

NoCall == [op |-> "none", ok |-> TRUE, id |-> NULL, input |-> NULL,
           existed |-> FALSE, failedAt |-> 0]

(***************************************************************************)
(* The process-wide connection (db.ts).                                    *)
(***************************************************************************)
\* dbInstance: 0 for null, else the handle; opened: the handles opened so far,
\* handle n being the n-th; closing: the handles whose closeAsync has started;
\* closers: the closeDatabase calls waiting for closeAsync, each with its handle;
\* returned: what the last getDatabase call returned; stale: the store file was
\* deleted or replaced under the open handle.
NoConnection ==
    [dbInstance |-> 0, opened |-> 0, closing |-> {}, closers |-> <<>>, returned |-> 0,
     stale |-> FALSE]

\* getDatabase: opens the connection if dbInstance is null, returns dbInstance.
GetDatabase(c) ==
    IF c.dbInstance = 0
    THEN [c EXCEPT !.dbInstance = c.opened + 1, !.opened = c.opened + 1,
                   !.returned = c.opened + 1, !.stale = FALSE]
    ELSE [c EXCEPT !.returned = c.dbInstance]

\* A step that runs statements: they go through getDatabase().  What a statement
\* does on a handle whose file was replaced depends on the platform; such steps
\* are left out.
UsesDatabase ==
    /\ ~ connection.stale
    /\ connection' = GetDatabase(connection)
    /\ UNCHANGED <<hooks, form>>

(***************************************************************************)
(* Seed synchronizer.                                                      *)
(***************************************************************************)
\* Mutant: INSERT OR REPLACE.
InsertOrReplaceOrganization(orgs, org) ==
    {o \in orgs : o.id # org.id} \cup {org @@ [isMember |-> "0"]}

\* INSERT OR IGNORE INTO organizations (..., isMember) VALUES (..., 0)
InsertOrganization(orgs, org) ==
    IF \E o \in orgs : o.id = org.id THEN orgs
    ELSE orgs \cup {org @@ [isMember |-> "0"]}

\* INSERT OR IGNORE INTO programs
InsertProgram(progs, program) ==
    IF \E p \in progs : p.id = program.id THEN progs ELSE progs \cup {program}

\* INSERT OR IGNORE INTO weapons (16 columns)
InsertWeapon(ws, weapon) ==
    IF \E w \in ws : w.id = weapon.id THEN ws
    ELSE ws \cup {weapon @@ [operationMode |-> NULL, caliber |-> NULL,
                             ownershipStatus |-> "own", loanContactName |-> NULL,
                             loanStartDate |-> NULL, loanEndDate |-> NULL]}

\* INSERT OR IGNORE INTO weapon_programs
InsertWeaponProgram(wps, relation) ==
    IF \E wp \in wps : wp.weaponId = relation.weaponId /\ wp.programId = relation.programId
    THEN wps
    ELSE wps \cup {[weaponId |-> relation.weaponId, programId |-> relation.programId,
                    status |-> relation.status,
                    isReserve |-> BoolToInt(relation, "isReserve")]}

\* `for (const x of seeds) await insert(db, x)`: the inserts are INSERT OR IGNORE
\* on distinct keys, so their order does not show in the result.
RECURSIVE InsertOrganizations(_, _)
InsertOrganizations(orgs, seeds) ==
    IF seeds = {} THEN orgs
    ELSE LET x == CHOOSE y \in seeds : TRUE
         IN  InsertOrganizations(InsertOrganization(orgs, x), seeds \ {x})

RECURSIVE InsertPrograms(_, _)
InsertPrograms(progs, seeds) ==
    IF seeds = {} THEN progs
    ELSE LET x == CHOOSE y \in seeds : TRUE
         IN  InsertPrograms(InsertProgram(progs, x), seeds \ {x})

RECURSIVE InsertWeapons(_, _)
InsertWeapons(ws, seeds) ==
    IF seeds = {} THEN ws
    ELSE LET x == CHOOSE y \in seeds : TRUE
         IN  InsertWeapons(InsertWeapon(ws, x), seeds \ {x})

RECURSIVE InsertWeaponPrograms(_, _)
InsertWeaponPrograms(wps, seeds) ==
    IF seeds = {} THEN wps
    ELSE LET x == CHOOSE y \in seeds : TRUE
         IN  InsertWeaponPrograms(InsertWeaponProgram(wps, x), seeds \ {x})

TableHasRows(table) == table # {}

SeedOrganizationsIfEmpty(orgs) ==
    IF TableHasRows(orgs) THEN orgs ELSE InsertOrganizations(orgs, OrganizationSeeds)

SeedProgramsIfEmpty(progs) ==
    IF TableHasRows(progs) THEN progs ELSE InsertPrograms(progs, ProgramSeeds)

SyncOrganizationsWithSeeds(orgs) == InsertOrganizations(orgs, OrganizationSeeds)

SyncProgramsWithSeeds(progs) == InsertPrograms(progs, ProgramSeeds)

SeedWeaponsIfEmpty(ws) ==
    IF TableHasRows(ws) THEN ws ELSE InsertWeapons(ws, WeaponSeeds)

SeedWeaponProgramsIfEmpty(wps) ==
    IF TableHasRows(wps) THEN wps ELSE InsertWeaponPrograms(wps, WeaponProgramSeeds)

\* The columns the CREATE TABLE statements of schema.ts give each table.
TableDDL ==
    [organizations   |-> {"id", "name", "shortName", "country", "orgNumber"},
     programs        |-> {"id", "organizationId", "name", "weaponCategory", "isReserveAllowed"},
     weapons         |-> {"id", "displayName", "type", "manufacturer", "model", "serialNumber",
                          "acquisitionDate", "acquisitionPrice", "weaponCardRef", "notes",
                          "operationMode", "caliber"},
     weapon_programs |-> {"weaponId", "programId", "status", "isReserve"}]

NoTables == [t \in DOMAIN TableDDL |-> {}]

\* The store file: the schema and the rows.
Store ==
    [columns |-> columns, organizations |-> organizations, programs |-> programs,
     weapons |-> weapons, weapon_programs |-> weapon_programs]

\* CREATE TABLE IF NOT EXISTS, for the four tables.
CreateTables(st) ==
    [st EXCEPT !.columns = [t \in DOMAIN TableDDL |->
                                IF st.columns[t] = {} THEN TableDDL[t] ELSE st.columns[t]]]

\* The column definitions runMigrations ensures: <<name, value the ALTER TABLE
\* gives the rows there are>>.
WeaponColumnDefinitions ==
    << <<"operationMode", NULL>>, <<"caliber", NULL>>, <<"ownershipStatus", "own">>,
       <<"loanContactName", NULL>>, <<"loanStartDate", NULL>>, <<"loanEndDate", NULL>> >>

OrganizationColumnDefinitions == << <<"isMember", "0">> >>

\* Mutant: ALTER TABLE ADD COLUMN for every definition, without looking at
\* table_info.
RECURSIVE EnsureColumnsAlways(_, _)
EnsureColumnsAlways(r, definitions) ==
    IF definitions = <<>> THEN r
    ELSE EnsureColumnsAlways([columns |-> r.columns \cup {Head(definitions)[1]},
                              rows    |-> {row @@ (Head(definitions)[1] :> Head(definitions)[2]) :
                                              row \in r.rows},
                              alters  |-> r.alters + 1],
                             Tail(definitions))

\* ensureColumns: PRAGMA table_info, then one ALTER TABLE ADD COLUMN for each
\* definition whose column is not there.  r is [columns, rows, alters].
RECURSIVE EnsureColumns(_, _)
EnsureColumns(r, definitions) ==
    IF definitions = <<>> THEN r
    ELSE LET name == Head(definitions)[1]
             dflt == Head(definitions)[2]
         IN  IF name \in r.columns
             THEN EnsureColumns(r, Tail(definitions))
             ELSE EnsureColumns([columns |-> r.columns \cup {name},
                                 rows    |-> {row @@ (name :> dflt) : row \in r.rows},
                                 alters  |-> r.alters + 1],
                                Tail(definitions))

\* UPDATE organizations SET isMember = 0 WHERE isMember IS NULL
BackfillMembership(orgs) ==
    {IF o.isMember = NULL THEN [o EXCEPT !.isMember = "0"] ELSE o : o \in orgs}

\* runMigrations; the result also tells how many ALTER TABLE statements ran.
MigrationResult(st) ==
    LET w == EnsureColumns([columns |-> st.columns.weapons, rows |-> st.weapons,
                            alters |-> 0], WeaponColumnDefinitions)
        o == EnsureColumns([columns |-> st.columns.organizations,
                            rows |-> st.organizations, alters |-> 0],
                           OrganizationColumnDefinitions)
    IN  [store  |-> [st EXCEPT !.columns.weapons = w.columns,
                               !.columns.organizations = o.columns,
                               !.weapons = w.rows,
                               !.organizations = BackfillMembership(o.rows)],
         alters |-> w.alters + o.alters]

RunMigrations(st) == MigrationResult(st).store

\* The awaited steps of seedDatabase, each one transaction.
SeedSteps == 8

SeedDatabaseStep(st, k) ==
    CASE k = 1 -> CreateTables(st)
      [] k = 2 -> RunMigrations(st)
      [] k = 3 -> [st EXCEPT !.organizations = SeedOrganizationsIfEmpty(st.organizations)]
      [] k = 4 -> [st EXCEPT !.programs = SeedProgramsIfEmpty(st.programs)]
      [] k = 5 -> [st EXCEPT !.organizations = SyncOrganizationsWithSeeds(st.organizations)]
      [] k = 6 -> [st EXCEPT !.programs = SyncProgramsWithSeeds(st.programs)]
      [] k = 7 -> [st EXCEPT !.weapons = SeedWeaponsIfEmpty(st.weapons)]
      [] k = 8 -> [st EXCEPT !.weapon_programs = SeedWeaponProgramsIfEmpty(st.weapon_programs)]

\* seedDatabase from step k on, no step failing.
RECURSIVE SeedDatabaseFrom(_, _)
SeedDatabaseFrom(st, k) ==
    IF k > SeedSteps THEN st ELSE SeedDatabaseFrom(SeedDatabaseStep(st, k), k + 1)

SeedDatabase(st) == SeedDatabaseFrom(st, 1)

\* No ensureSeeded call yet in this process.
\* step: the step seedDatabase is at; runs: seedDatabase runs started; calls and
\* returned: the ensureSeeded calls and the promises they returned; phases: the
\* state seedPromise was in at each call; hadWeapons: what seedWeaponsIfEmpty
\* found.
NotSeeding ==
    [step |-> 0, runs |-> 0, calls |-> 0, returned |-> {}, phases |-> {},
     hadWeapons |-> FALSE]

\* ensureSeeded: the first call starts seedDatabase and memoizes its promise.
\* Here the whole run, none of its steps failing.
EnsureSeeded ==
    /\ seedPromise = NULL
    /\ seedPromise' = "resolved"
    /\ \E st \in {SeedDatabase(Store)} :
            /\ columns' = st.columns
            /\ organizations' = st.organizations
            /\ programs' = st.programs
            /\ weapons' = st.weapons
            /\ weapon_programs' = st.weapon_programs
    /\ seeding' = [step |-> SeedSteps + 1, runs |-> 1, calls |-> 1, returned |-> {1},
                   phases |-> {NULL}, hadWeapons |-> TableHasRows(weapons)]
    /\ lastCall' = [NoCall EXCEPT !.op = "ensureSeeded"]
    /\ UNCHANGED <<layout, storage>>
    /\ UsesDatabase

(***************************************************************************)
(* Repository writes.  The screens that call them are rendered only once   *)
(* ensureSeeded has resolved.                                              *)
(***************************************************************************)
UpsertWeapon(input, failAt) ==
    /\ seedPromise = "resolved"
    /\ failAt \in 0..(Len(input.programs) + 2)
    /\ \E r \in {RunWithinTransaction(Database, UpsertWeaponSteps(Database, input), failAt)} :
           /\ weapons' = r.db.weapons
           /\ weapon_programs' = r.db.weapon_programs
           /\ lastCall' =
                IF r.ok
                THEN [op |-> "upsertWeapon", ok |-> TRUE, id |-> input.id, input |-> input,
                      existed |-> \E w \in weapons : w.id = input.id, failedAt |-> 0]
                ELSE [op |-> "upsertWeapon", ok |-> FALSE, id |-> NULL, input |-> NULL,
                      existed |-> FALSE, failedAt |-> IF failAt < 3 THEN failAt ELSE 3]
    /\ UNCHANGED <<organizations, programs, seedPromise>>
    /\ UNCHANGED appVars
    /\ UsesDatabase

DeleteWeapon(weaponId, failAt) ==
    /\ seedPromise = "resolved"
    /\ failAt \in 0..2
    /\ \E r \in {RunWithinTransaction(Database, DeleteWeaponSteps(Database, weaponId), failAt)} :
           /\ weapons' = r.db.weapons
           /\ weapon_programs' = r.db.weapon_programs
           /\ lastCall' =
                IF r.ok
                THEN [op |-> "deleteWeapon", ok |-> TRUE, id |-> weaponId, input |-> NULL,
                      existed |-> \E w \in weapons : w.id = weaponId, failedAt |-> 0]
                ELSE [op |-> "deleteWeapon", ok |-> FALSE, id |-> NULL, input |-> NULL,
                      existed |-> FALSE, failedAt |-> failAt]
    /\ UNCHANGED <<organizations, programs, seedPromise>>
    /\ UNCHANGED appVars
    /\ UsesDatabase

Init ==
    /\ organizations = {}
    /\ programs = {}
    /\ weapons = {}
    /\ weapon_programs = {}
    /\ seedPromise = NULL
    /\ lastCall = NoCall
    /\ columns = NoTables
    /\ seeding = NotSeeding
    /\ layout = NotMounted
    /\ storage = NoBackups
    /\ connection = NoConnection
    /\ hooks = NoHooks
    /\ form = NoForm

\* Every call completes: no statement fails.
Next ==
    \/ EnsureSeeded
    \/ \E input \in UpsertWeaponInputs : UpsertWeapon(input, 0)
    \/ \E weaponId \in WeaponIds : DeleteWeapon(weaponId, 0)

Spec == Init /\ [][Next]_vars

\* Any statement of a transaction may fail.
NextFaults ==
    \/ EnsureSeeded
    \/ \E input \in UpsertWeaponInputs : \E failAt \in 0..(Len(input.programs) + 2) :
            UpsertWeapon(input, failAt)
    \/ \E weaponId \in WeaponIds : \E failAt \in 0..2 : DeleteWeapon(weaponId, failAt)

SpecFaults == Init /\ [][NextFaults]_vars

(***************************************************************************)
(* The application around the repository: launches of the process, the     *)
(* seeding run step by step, RootLayout waiting for it, and the            *)
(* organization memberships.                                               *)
(***************************************************************************)
\* ensureSeeded calls made in one process.
MaxCalls == 3

\* What the seedDatabase of the earlier release (no migrations, no isMember, ten
\* weapon columns) left in the store.
EarlierReleaseStore ==
    [columns |-> [TableDDL EXCEPT
                    !.weapons = TableDDL.weapons \ {"operationMode", "caliber"}],
     organizations   |-> OrganizationSeeds,
     programs        |-> ProgramSeeds,
     weapons         |-> WeaponSeeds,
     weapon_programs |-> InsertWeaponPrograms({}, WeaponProgramSeeds)]

\* A store file of another origin put in place of the database (restore from a
\* file): an organization and a program under bundled ids with other reference
\* values, the organization a member, one weapon of the user's without links.
RestoredFileStore ==
    [columns |-> [TableDDL EXCEPT
                    !.organizations = TableDDL.organizations \cup {"isMember"}],
     organizations   |-> {[id |-> "943942102", name |-> "DFS (tidligere navn)",
                           shortName |-> "DFS", country |-> "NO",
                           orgNumber |-> "943942102", isMember |-> "1"]},
     programs        |-> {[id |-> "1", organizationId |-> "943942102",
                           name |-> "Bane", weaponCategory |-> "rifle",
                           isReserveAllowed |-> FALSE]},
     weapons         |-> {[id |-> "weapon-002", displayName |-> "Beretta 92",
                           type |-> "pistol", manufacturer |-> NULL, model |-> NULL,
                           serialNumber |-> NULL, acquisitionDate |-> NULL,
                           acquisitionPrice |-> NULL, weaponCardRef |-> NULL,
                           notes |-> NULL, operationMode |-> NULL, caliber |-> NULL]},
     weapon_programs |-> {}]

EmptyStore ==
    [columns |-> NoTables, organizations |-> {}, programs |-> {}, weapons |-> {},
     weapon_programs |-> {}]

\* The store the application finds at its first launch in the model.
InstalledStores == {EmptyStore, EarlierReleaseStore, RestoredFileStore}

\* Mutant: a rejected seeding is started again.
StartsSeedingAfterRejection(promise) == promise \in {NULL, "rejected"}

\* Mutant: ensureSeeded without the memo.
StartsSeedingAlways(promise) == TRUE

\* if (!seedPromise)
StartsSeeding(promise) == promise = NULL

\* Mutant: .finally(() => setDatabaseReady(true)).
RootLayoutSettleFinally(l, outcome) ==
    [l EXCEPT !.pending = FALSE, !.databaseReady = l.isMounted]

\* RootLayout's .then / .catch on the promise of ensureSeeded.
RootLayoutSettle(l, outcome) ==
    IF outcome = "resolved"
    THEN [l EXCEPT !.pending = FALSE,
                   !.databaseReady = IF l.isMounted THEN TRUE ELSE l.databaseReady]
    ELSE [l EXCEPT !.pending = FALSE]

\* RootLayout mounts: its effect calls ensureSeeded, which starts seedDatabase or
\* returns the memoized promise.  Promise n is the one the n-th run created.
Mount ==
    /\ ~ layout.isMounted
    /\ seeding.calls < MaxCalls
    /\ layout' = [isMounted |-> TRUE, databaseReady |-> FALSE, pending |-> TRUE]
    /\ IF StartsSeeding(seedPromise)
       THEN /\ seedPromise' = "pending"
            /\ seeding' = [step       |-> 1,
                           runs       |-> seeding.runs + 1,
                           calls      |-> seeding.calls + 1,
                           returned   |-> seeding.returned \cup {seeding.runs + 1},
                           phases     |-> seeding.phases \cup {seedPromise},
                           hadWeapons |-> FALSE]
       ELSE /\ seedPromise' = seedPromise
            /\ seeding' = [seeding EXCEPT !.calls = @ + 1,
                                          !.returned = @ \cup {seeding.runs},
                                          !.phases = @ \cup {seedPromise}]
    /\ lastCall' = [NoCall EXCEPT !.op = "ensureSeeded"]
    /\ connection' = IF StartsSeeding(seedPromise) THEN GetDatabase(connection)
                     ELSE connection
    /\ UNCHANGED <<organizations, programs, weapons, weapon_programs, columns, storage,
                   hooks, form>>

\* The effect's cleanup: isMounted = false; the component and its state are gone.
Cleanup ==
    /\ layout.isMounted
    /\ layout' = NotMounted
    /\ lastCall' = NoCall
    /\ UNCHANGED <<organizations, programs, weapons, weapon_programs, seedPromise,
                   columns, seeding, storage>>
    /\ UNCHANGED uiVars

\* One awaited step of seedDatabase: its transaction commits, or it fails, is
\* rolled back and rejects the promise.
SeedStep(fails) ==
    /\ seedPromise = "pending"
    /\ seeding.step \in 1..SeedSteps
    /\ IF fails
       THEN /\ seedPromise' = "rejected"
            /\ lastCall' = [NoCall EXCEPT !.op = "seedDatabase", !.ok = FALSE,
                                          !.failedAt = seeding.step]
            /\ UNCHANGED <<organizations, programs, weapons, weapon_programs, columns,
                           seeding>>
       ELSE /\ \E st \in {SeedDatabaseStep(Store, seeding.step)} :
                    /\ columns' = st.columns
                    /\ organizations' = st.organizations
                    /\ programs' = st.programs
                    /\ weapons' = st.weapons
                    /\ weapon_programs' = st.weapon_programs
            /\ seeding' = [seeding EXCEPT
                                !.step = @ + 1,
                                !.hadWeapons = IF seeding.step = 7
                                               THEN TableHasRows(weapons) ELSE @]
            /\ seedPromise' = IF seeding.step = SeedSteps THEN "resolved" ELSE "pending"
            /\ lastCall' = [NoCall EXCEPT !.op = "seedDatabase", !.failedAt = seeding.step,
                                          !.existed = TableHasRows(weapons)]
    /\ UNCHANGED <<layout, storage>>
    /\ UsesDatabase

\* The promise RootLayout waits for settles: then sets databaseReady, catch logs.
Settle ==
    /\ layout.pending
    /\ seedPromise \in {"resolved", "rejected"}
    /\ layout' = RootLayoutSettle(layout, seedPromise)
    /\ lastCall' = NoCall
    /\ UNCHANGED <<organizations, programs, weapons, weapon_programs, seedPromise,
                   columns, seeding, storage>>
    /\ UNCHANGED uiVars

\* The process ends and the application is launched again: module state is
\* new, the store file is what it was.
Relaunch ==
    /\ seedPromise # NULL
    /\ seedPromise' = NULL
    /\ seeding' = NotSeeding
    /\ layout' = NotMounted
    /\ lastCall' = NoCall
    /\ connection' = NoConnection
    /\ UNCHANGED <<organizations, programs, weapons, weapon_programs, columns, storage,
                   hooks, form>>

\* Mutant: UPDATE organizations SET isMember = ? with no WHERE clause.
UpdateMembershipOfAll(orgs, organizationId, isMember) ==
    {[o EXCEPT !.isMember = IF isMember THEN "1" ELSE "0"] : o \in orgs}

\* UPDATE organizations SET isMember = ? WHERE id = ?
UpdateMembership(orgs, organizationId, isMember) ==
    {IF o.id = organizationId THEN [o EXCEPT !.isMember = IF isMember THEN "1" ELSE "0"]
     ELSE o : o \in orgs}

\* UPDATE organizations SET isMember = ?
UpdateAllMemberships(orgs, isMember) ==
    {[o EXCEPT !.isMember = IF isMember THEN "1" ELSE "0"] : o \in orgs}

\* An organization id no row carries.
UnknownOrganizationId == "000000000"

SetOrganizationMembership(organizationId, isMember) ==
    /\ layout.databaseReady
    /\ organizations' = UpdateMembership(organizations, organizationId, isMember)
    /\ lastCall' = [NoCall EXCEPT !.op = "setOrganizationMembership",
                                  !.id = organizationId,
                                  !.existed = \E o \in organizations : o.id = organizationId]
    /\ UNCHANGED <<programs, weapons, weapon_programs, seedPromise>>
    /\ UNCHANGED appVars
    /\ UsesDatabase

SetAllOrganizationMemberships(isMember) ==
    /\ layout.databaseReady
    /\ organizations' = UpdateAllMemberships(organizations, isMember)
    /\ lastCall' = [NoCall EXCEPT !.op = "setAllOrganizationMemberships"]
    /\ UNCHANGED <<programs, weapons, weapon_programs, seedPromise>>
    /\ UNCHANGED appVars
    /\ UsesDatabase

\* The weapon edits of this specification: both weapons saved without programs,
\* one saved with a single selection.
LaunchUpsertInputs ==
    {i \in UpsertWeaponInputs :
        /\ "caliber" \notin DOMAIN i.fields
        /\ \/ i.programs = <<>>
           \/ i.id = "weapon-001" /\ i.programs = <<[programId |-> "158"]>>}

\* The weapon screens call the repository once RootLayout renders them.
EditWeapon(input) == layout.databaseReady /\ UpsertWeapon(input, 0)

RemoveWeapon(weaponId) == layout.databaseReady /\ DeleteWeapon(weaponId, 0)

InitLaunch ==
    /\ \E st \in InstalledStores :
            /\ columns = st.columns
            /\ organizations = st.organizations
            /\ programs = st.programs
            /\ weapons = st.weapons
            /\ weapon_programs = st.weapon_programs
    /\ seedPromise = NULL
    /\ lastCall = NoCall
    /\ seeding = NotSeeding
    /\ layout = NotMounted
    /\ storage = NoBackups
    /\ connection = NoConnection
    /\ hooks = NoHooks
    /\ form = NoForm

NextLaunch ==
    \/ Mount
    \/ Cleanup
    \/ \E fails \in BOOLEAN : SeedStep(fails)
    \/ Settle
    \/ Relaunch
    \/ \E o \in OrganizationIds \cup {UnknownOrganizationId} : \E v \in BOOLEAN :
            SetOrganizationMembership(o, v)
    \/ \E v \in BOOLEAN : SetAllOrganizationMemberships(v)
    \/ \E input \in LaunchUpsertInputs : EditWeapon(input)
    \/ \E weaponId \in WeaponIds : RemoveWeapon(weaponId)

SpecLaunch == InitLaunch /\ [][NextLaunch]_vars

(***************************************************************************)
(* Backup and restore of the store file (services/storage).                *)
(***************************************************************************)
MaxBackups == 2
MaxRestores == 2

\* The names backupDatabase gives its files: each carries the time of the backup.
BackupFileNames ==
    <<"minevaapen-backup-1.db", "minevaapen-backup-2.db", "minevaapen-backup-3.db",
      "minevaapen-backup-4.db", "minevaapen-backup-5.db">>

\* listBackupFiles: the files of the backups directory, most recent first.
RECURSIVE ListBackupFiles(_)
ListBackupFiles(backups) ==
    IF backups = <<>> THEN <<>>
    ELSE <<backups[Len(backups)]>> \o ListBackupFiles(SubSeq(backups, 1, Len(backups) - 1))

\* The store file is absent.  A file without tables reads as an absent one to
\* every statement; only backupDatabase and restoreDatabase ask whether it exists.
DatabaseFileExists(st) == st # EmptyStore

\* backupDatabase: throws 'Database not found' when the store file is absent,
\* otherwise copies it into the backups directory.
BackupDatabase ==
    /\ layout.databaseReady
    /\ Len(storage.backups) < MaxBackups
    /\ IF DatabaseFileExists(Store)
       THEN /\ storage' = [storage EXCEPT
                                !.backups = Append(@, [path  |-> BackupFileNames[Len(storage.backups) + 1],
                                                       store |-> Store])]
            /\ lastCall' = [NoCall EXCEPT !.op = "backupDatabase"]
       ELSE /\ lastCall' = [NoCall EXCEPT !.op = "backupDatabase", !.ok = FALSE,
                                          !.input = "Database not found"]
            /\ UNCHANGED storage
    /\ UNCHANGED <<organizations, programs, weapons, weapon_programs, seedPromise,
                   columns, seeding, layout>>
    /\ UNCHANGED uiVars

\* options.sourcePath left out: `if (options.sourcePath)` is false.
NoSourcePath == NULL

\* The file-system steps of restoreDatabase that can throw.
RestoreFaults == {"none", "list", "delete", "copy"}

\* Mutant: the store file is deleted before the backups are looked at.
RestoreOutcomeDeleteFirst(st, files, options, failsAt) ==
    LET backups == ListBackupFiles(files)
        named == options.sourcePath # NoSourcePath
        found == {i \in 1..Len(backups) : named /\ backups[i].path = options.sourcePath}
    IN  IF backups = <<>>
        THEN [ok |-> FALSE, error |-> "No backups found", store |-> EmptyStore,
              touched |-> TRUE]
        ELSE IF named /\ found = {}
        THEN [ok |-> FALSE, error |-> "Selected backup not found", store |-> EmptyStore,
              touched |-> TRUE]
        ELSE [ok |-> TRUE, error |-> NULL,
              store |-> IF named THEN backups[CHOOSE i \in found : TRUE].store
                        ELSE backups[1].store,
              touched |-> TRUE]

\* restoreDatabase(options) on store file st with the backup files given: lists
\* the backups, throws when there is none or when sourcePath names none, deletes
\* the store file if it exists and copies the selected backup (the most recent by
\* default) in its place.  failsAt names the file-system step that throws, if
\* one does.  touched: the store file was deleted or written.
RestoreOutcome(st, files, options, failsAt) ==
    LET backups == ListBackupFiles(files)
        named == options.sourcePath # NoSourcePath
        found == {i \in 1..Len(backups) : named /\ backups[i].path = options.sourcePath}
    IN  IF failsAt = "list"
        THEN [ok |-> FALSE, error |-> "list", store |-> st, touched |-> FALSE]
        ELSE IF backups = <<>>
        THEN [ok |-> FALSE, error |-> "No backups found", store |-> st, touched |-> FALSE]
        ELSE IF named /\ found = {}
        THEN [ok |-> FALSE, error |-> "Selected backup not found", store |-> st,
              touched |-> FALSE]
        ELSE IF failsAt = "delete" /\ DatabaseFileExists(st)
        THEN [ok |-> FALSE, error |-> "delete", store |-> st, touched |-> FALSE]
        ELSE IF failsAt = "copy"
        THEN [ok |-> FALSE, error |-> "copy", store |-> EmptyStore, touched |-> TRUE]
        ELSE [ok |-> TRUE, error |-> NULL,
              store |-> IF named THEN backups[CHOOSE i \in found : TRUE].store
                        ELSE backups[1].store,
              touched |-> TRUE]

\* restoreDatabase(options).  storage.restored counts the calls that returned,
\* storage.emitted the RESTORED events: the function emits none.  It does not
\* close the connection either: dbInstance stays as it is.
RestoreDatabase(options, failsAt) ==
    /\ layout.databaseReady
    /\ storage.restored < MaxRestores
    /\ \E r \in {RestoreOutcome(Store, storage.backups, options, failsAt)} :
            /\ columns' = r.store.columns
            /\ organizations' = r.store.organizations
            /\ programs' = r.store.programs
            /\ weapons' = r.store.weapons
            /\ weapon_programs' = r.store.weapon_programs
            /\ storage' = [storage EXCEPT !.restored = IF r.ok THEN @ + 1 ELSE @]
            /\ connection' = [connection EXCEPT
                                    !.stale = @ \/ (r.touched /\ connection.dbInstance # 0)]
            /\ lastCall' = [NoCall EXCEPT !.op = "restoreDatabase", !.ok = r.ok,
                                          !.id = options.sourcePath, !.input = r.error,
                                          !.existed = DatabaseFileExists(Store)]
    /\ UNCHANGED <<seedPromise, seeding, layout, hooks, form>>

\* The options a caller passes: no sourcePath, the path of each possible backup,
\* and a path that names no file.
RestoreDatabaseOptions ==
    {[sourcePath |-> path] :
        path \in {NoSourcePath} \cup {BackupFileNames[n] : n \in 1..(MaxBackups + 1)}}

\* The application after the launch of a fresh install has completed.
InitRestore ==
    /\ \E st \in {SeedDatabase(EmptyStore)} :
            /\ columns = st.columns
            /\ organizations = st.organizations
            /\ programs = st.programs
            /\ weapons = st.weapons
            /\ weapon_programs = st.weapon_programs
    /\ seedPromise = "resolved"
    /\ lastCall = NoCall
    /\ seeding = [step |-> SeedSteps + 1, runs |-> 1, calls |-> 1, returned |-> {1},
                  phases |-> {NULL}, hadWeapons |-> FALSE]
    /\ layout = [isMounted |-> TRUE, databaseReady |-> TRUE, pending |-> FALSE]
    /\ storage = NoBackups
    /\ connection = GetDatabase(NoConnection)
    /\ hooks = NoHooks
    /\ form = NoForm

NextRestore ==
    \/ BackupDatabase
    \/ \E options \in RestoreDatabaseOptions : \E failsAt \in RestoreFaults :
            RestoreDatabase(options, failsAt)
    \/ \E v \in BOOLEAN : SetAllOrganizationMemberships(v)
    \/ \E weaponId \in WeaponIds : RemoveWeapon(weaponId)

SpecRestore == InitRestore /\ [][NextRestore]_vars

(***************************************************************************)
(* getDatabase and closeDatabase calls in any interleaving (db.ts).        *)
(***************************************************************************)
MaxHandles == 4
MaxClosers == 3

\* A caller gets the connection.
GetDatabaseCall ==
    /\ connection.dbInstance # 0 \/ connection.opened < MaxHandles
    /\ connection' = GetDatabase(connection)
    /\ lastCall' = [NoCall EXCEPT !.op = "getDatabase"]
    /\ UNCHANGED <<organizations, programs, weapons, weapon_programs, seedPromise,
                   hooks, form>>
    /\ UNCHANGED appVars

\* closeDatabase up to its await: with dbInstance set it starts closeAsync on the
\* handle and waits, dbInstance still holding the handle; with dbInstance null it
\* returns.
CloseDatabaseBegin ==
    /\ Len(connection.closers) < MaxClosers
    /\ connection' =
            IF connection.dbInstance # 0
            THEN [connection EXCEPT !.closing = @ \cup {connection.dbInstance},
                                    !.closers = Append(@, connection.dbInstance)]
            ELSE connection
    /\ lastCall' = [NoCall EXCEPT !.op = "closeDatabase", !.existed = connection.dbInstance # 0]
    /\ UNCHANGED <<organizations, programs, weapons, weapon_programs, seedPromise,
                   hooks, form>>
    /\ UNCHANGED appVars

\* All but the i-th element.
RemoveAt(seq, i) == SubSeq(seq, 1, i - 1) \o SubSeq(seq, i + 1, Len(seq))

\* The closeAsync a closeDatabase call waits for settles: resolved, the call sets
\* dbInstance = null, whatever dbInstance holds by then; rejected, the call
\* throws and leaves dbInstance.
CloseDatabaseEnd(i, rejects) ==
    /\ i \in DOMAIN connection.closers
    /\ connection' = [connection EXCEPT
                            !.closers = RemoveAt(@, i),
                            !.dbInstance = IF rejects THEN @ ELSE 0]
    /\ lastCall' = [NoCall EXCEPT !.op = "closeDatabase", !.ok = ~ rejects,
                                  !.failedAt = IF rejects THEN 1 ELSE 0]
    /\ UNCHANGED <<organizations, programs, weapons, weapon_programs, seedPromise,
                   hooks, form>>
    /\ UNCHANGED appVars

NextConnection ==
    \/ GetDatabaseCall
    \/ CloseDatabaseBegin
    \/ \E i \in 1..MaxClosers : \E rejects \in BOOLEAN : CloseDatabaseEnd(i, rejects)

SpecConnection == InitRestore /\ [][NextConnection]_vars

(***************************************************************************)
(* useWeapons and useOrganizations: loads and the RESTORED subscription.   *)
(***************************************************************************)
MaxLoads == 3
MaxEmits == 2

\* load up to its await: setLoading(true), setError(null), fetch started.
StartLoad(hook) ==
    [hook EXCEPT !.started = @ + 1, !.pending = @ \cup {hook.started + 1},
                 !.loading = TRUE, !.failed = FALSE]

\* Mutant: the cleanup leaves the listener registered.
KeepSubscription(n) == n

\* subscription.remove()
RemoveSubscription(n) == n - 1

\* databaseEvents.addListener(RESTORED, ...)
AddListener(n) == n + 1

\* The effect of a hook: void load(), then the subscription.
RunEffect(hook) ==
    [StartLoad(hook) EXCEPT !.subscriptions = AddListener(@)]

\* The hook mounts: initial state, then its effect.
MountHook(h) ==
    /\ layout.databaseReady
    /\ ~ hooks[h].mounted
    /\ hooks[h].started < MaxLoads
    /\ hooks' = [hooks EXCEPT ![h] =
            RunEffect([UnmountedHook EXCEPT !.mounted = TRUE,
                                            !.started = hooks[h].started])]
    /\ lastCall' = [NoCall EXCEPT !.op = "mount", !.id = h]
    /\ UNCHANGED <<organizations, programs, weapons, weapon_programs, seedPromise,
                   connection, form>>
    /\ UNCHANGED appVars

\* The hook unmounts: the cleanup of its effect.  The loads still pending settle
\* into a component that is gone.
UnmountHook(h) ==
    /\ hooks[h].mounted
    /\ hooks' = [hooks EXCEPT ![h] =
            [UnmountedHook EXCEPT !.started = hooks[h].started,
                                  !.subscriptions =
                                        RemoveSubscription(hooks[h].subscriptions)]]
    /\ lastCall' = [NoCall EXCEPT !.op = "unmount", !.id = h]
    /\ UNCHANGED <<organizations, programs, weapons, weapon_programs, seedPromise,
                   connection, form>>
    /\ UNCHANGED appVars

\* useWeapons is rendered with other filters: load is recreated, so the effect's
\* cleanup runs and then the effect again.
ChangeFilters ==
    /\ hooks["useWeapons"].mounted
    /\ hooks["useWeapons"].started < MaxLoads
    /\ hooks' = [hooks EXCEPT !["useWeapons"] =
            RunEffect([@ EXCEPT !.subscriptions = RemoveSubscription(@)])]
    /\ lastCall' = [NoCall EXCEPT !.op = "changeFilters", !.id = "useWeapons"]
    /\ UNCHANGED <<organizations, programs, weapons, weapon_programs, seedPromise,
                   connection, form>>
    /\ UNCHANGED appVars

\* A screen calls refresh, which is load.
Refresh(h) ==
    /\ hooks[h].mounted
    /\ hooks[h].started < MaxLoads
    /\ hooks' = [hooks EXCEPT ![h] = StartLoad(@)]
    /\ lastCall' = [NoCall EXCEPT !.op = "refresh", !.id = h]
    /\ UNCHANGED <<organizations, programs, weapons, weapon_programs, seedPromise,
                   connection, form>>
    /\ UNCHANGED appVars

\* The listeners a hook has registered, each started once.
RECURSIVE NotifyListeners(_, _)
NotifyListeners(hook, n) ==
    IF n = 0 THEN hook ELSE NotifyListeners(StartLoad(hook), n - 1)

\* databaseEvents.emitRestored(): every registered listener is called, and
\* each calls load.
EmitRestored ==
    /\ layout.databaseReady
    /\ storage.emitted < MaxEmits
    /\ \A h \in HookNames : hooks[h].started + hooks[h].subscriptions <= MaxLoads
    /\ hooks' = [h \in HookNames |-> NotifyListeners(hooks[h], hooks[h].subscriptions)]
    /\ storage' = [storage EXCEPT !.emitted = @ + 1]
    /\ lastCall' = [NoCall EXCEPT !.op = "emitRestored"]
    /\ UNCHANGED <<organizations, programs, weapons, weapon_programs, seedPromise,
                   columns, seeding, layout, connection, form>>

\* The fetch of a pending load settles, whichever load it is: resolved, the load
\* puts its rows in the state; rejected, it sets the error; then, in finally,
\* setLoading(false).
SettleLoad(h, load, rejects) ==
    /\ load \in hooks[h].pending
    /\ hooks' = [hooks EXCEPT ![h] =
            [@ EXCEPT !.pending = @ \ {load},
                      !.result = IF rejects THEN @ ELSE load,
                      !.failed = IF rejects THEN TRUE ELSE @,
                      !.loading = FALSE]]
    /\ lastCall' = [NoCall EXCEPT !.op = "load", !.id = h, !.ok = ~ rejects,
                                  !.failedAt = load]
    /\ UNCHANGED <<organizations, programs, weapons, weapon_programs, seedPromise,
                   form>>
    /\ UNCHANGED appVars
    /\ connection' = GetDatabase(connection)

NextHooks ==
    \/ \E h \in HookNames : MountHook(h)
    \/ \E h \in HookNames : UnmountHook(h)
    \/ ChangeFilters
    \/ \E h \in HookNames : Refresh(h)
    \/ EmitRestored
    \/ \E h \in HookNames : \E load \in 1..MaxLoads : \E rejects \in BOOLEAN :
            SettleLoad(h, load, rejects)

SpecHooks == InitRestore /\ [][NextHooks]_vars

(***************************************************************************)
(* The weapon form (ManageWeaponScreen) with its three hooks.              *)
(***************************************************************************)
\* Object.entries lists the keys that are canonical array indices in ascending
\* numeric order; every program id is such a key.
ProgramIdOrder == <<"1", "31", "158", "160", "999">>

ObjectEntries(map) == SelectSeq(ProgramIdOrder, LAMBDA id : id \in DOMAIN map)

\* map[id] = value
SetEntry(map, id, value) ==
    [k \in (DOMAIN map) \cup {id} |-> IF k = id THEN value ELSE map[k]]

\* delete map[id]
DeleteEntry(map, id) == [k \in (DOMAIN map) \ {id} |-> map[k]]

\* Mutant: the selection map is returned as it came.
NormalizeSelectionMapKeepAll(input, preferredApprovedId) == input

\* normalizeSelectionMap: the preferred id stays the approved one if its entry
\* is approved, else the first approved entry is; every other entry loses
\* isApproved, and an entry that is not approved loses isReserve.
NormalizeSelectionMap(input, preferredApprovedId) ==
    LET preferred == IF /\ preferredApprovedId # NULL
                        /\ preferredApprovedId \in DOMAIN input
                        /\ input[preferredApprovedId].isApproved
                     THEN preferredApprovedId ELSE NULL
        approved == SelectSeq(ObjectEntries(input), LAMBDA id : input[id].isApproved)
        approvedProgramId == IF preferred # NULL THEN preferred
                             ELSE IF approved # <<>> THEN Head(approved) ELSE NULL
    IN  [id \in DOMAIN input |->
            LET isApproved == approvedProgramId = id /\ input[id].isApproved
            IN  [isApproved |-> isApproved,
                 isReserve |-> IF isApproved THEN input[id].isReserve ELSE FALSE]]

\* toggleProgramSelection
ToggleProgramSelection(prev, programId) ==
    NormalizeSelectionMap(
        IF programId \in DOMAIN prev THEN DeleteEntry(prev, programId)
        ELSE SetEntry(prev, programId, [isReserve |-> FALSE, isApproved |-> FALSE]),
        NULL)

\* setProgramReserve
SetProgramReserve(prev, programId, isReserve) ==
    IF programId \notin DOMAIN prev THEN prev
    ELSE NormalizeSelectionMap(
            SetEntry(prev, programId,
                     [isReserve |-> isReserve,
                      isApproved |-> IF isReserve THEN TRUE
                                     ELSE prev[programId].isApproved]),
            IF isReserve THEN programId ELSE NULL)

\* setProgramApproved
SetProgramApproved(prev, programId, isApproved) ==
    IF programId \notin DOMAIN prev THEN prev
    ELSE NormalizeSelectionMap(
            SetEntry(prev, programId,
                     [isApproved |-> isApproved,
                      isReserve |-> IF isApproved THEN prev[programId].isReserve
                                    ELSE FALSE]),
            IF isApproved THEN programId ELSE NULL)

\* The effect on [programs]: the entries whose program is not in the list go.
FilterSelections(prev, programIds) ==
    [id \in (DOMAIN prev) \cap programIds |-> prev[id]]

\* The reduce of the effect on [isEditMode, weapon]: one entry per program of the
\* weapon, the first approved program being the approved one.
RECURSIVE InitialSelectionsFrom(_, _, _)
InitialSelectionsFrom(progs, acc, approvedProgramId) ==
    IF progs = <<>> THEN [map |-> acc, approvedProgramId |-> approvedProgramId]
    ELSE LET program == Head(progs)
             isInitiallyApproved == program.status = "approved"
             approved == IF isInitiallyApproved /\ approvedProgramId = NULL
                         THEN program.programId ELSE approvedProgramId
         IN  InitialSelectionsFrom(
                Tail(progs),
                SetEntry(acc, program.programId,
                         [isReserve |-> program.isReserve,
                          isApproved |-> isInitiallyApproved
                                            /\ approved = program.programId]),
                approved)

\* The selection map the effect on [isEditMode, weapon] sets.
InitialSelections(progs) ==
    LET r == InitialSelectionsFrom(progs, <<>>, NULL)
    IN  NormalizeSelectionMap(r.map, r.approvedProgramId)

\* The programs of handleSave's payload.
PayloadPrograms(selectedPrograms) ==
    LET ids == ObjectEntries(selectedPrograms)
    IN  [i \in DOMAIN ids |->
            [programId |-> ids[i],
             isReserve |-> IF selectedPrograms[ids[i]].isApproved
                           THEN selectedPrograms[ids[i]].isReserve ELSE FALSE,
             status |-> IF selectedPrograms[ids[i]].isApproved
                        THEN "approved" ELSE "pending"]]

\* fetchWeaponById: the SELECT of fetchWeapons with WHERE w.id = ?; null when no
\* row comes back.
FetchWeaponById(weaponId) ==
    LET g == {r \in WeaponJoin : r.w.id = weaponId}
    IN  IF g = {} THEN JsonNull
        ELSE LET w == (CHOOSE r \in g : TRUE).w
             IN  [id |-> w.id, displayName |-> w.displayName, type |-> w.type,
                  manufacturer |-> w.manufacturer, model |-> w.model,
                  serialNumber |-> w.serialNumber,
                  acquisitionDate |-> w.acquisitionDate,
                  acquisitionPrice |-> w.acquisitionPrice,
                  weaponCardRef |-> w.weaponCardRef, notes |-> w.notes,
                  programs |-> ParsePrograms(JsonGroupArray(g))]

\* json_group_array has no ORDER BY: the programs of a weapon come in any order.
Orders(seq) ==
    {[i \in DOMAIN seq |-> seq[p[i]]] :
        p \in {q \in [DOMAIN seq -> DOMAIN seq] : \A i, j \in DOMAIN seq : q[i] = q[j] => i = j}}

\* The loads of the form's hooks.  usePrograms starts one with the initial
\* memberOrganizationIds ([]) and one more when useOrganizations has delivered.
WeaponLoad == "useWeapon"
OrganizationsLoad == "useOrganizations"
FirstProgramsLoad == "usePrograms []"
SecondProgramsLoad == "usePrograms memberOrganizationIds"

\* The screen is opened at most MaxOpens times.
MaxOpens == 1

\* The id createWeaponId gives a new weapon; the form saves one new weapon.
NewWeaponId == "weapon-new"

\* The form is on screen with its controls: in edit mode once the weapon is
\* there, and never when a load has set an error.
FormRendered ==
    /\ form.open
    /\ ~ form.failed
    /\ form.weaponId # NULL => form.weapon

\* The screen is opened for weaponId: every hook mounts and starts its load.
\* useWeapon without a weaponId loads nothing.
OpenForm(weaponId) ==
    /\ layout.databaseReady
    /\ seedPromise = "resolved"
    /\ ~ form.open
    /\ form.opens < MaxOpens
    /\ form' = [NoForm EXCEPT
            !.open = TRUE,
            !.opens = form.opens + 1,
            !.weaponId = weaponId,
            !.pending = {OrganizationsLoad, FirstProgramsLoad}
                            \cup (IF weaponId # NULL THEN {WeaponLoad} ELSE {}),
            !.before = {wp \in weapon_programs : wp.weaponId = weaponId}]
    /\ lastCall' = [NoCall EXCEPT !.op = "openForm", !.id = weaponId]
    /\ UNCHANGED <<organizations, programs, weapons, weapon_programs, seedPromise,
                   connection, hooks>>
    /\ UNCHANGED appVars

\* useWeapon's load settles; the effect on [isEditMode, weapon] fills the fields
\* and the selection map.  A weapon that is not found leaves the form unrendered.
SettleWeaponLoad(rejects) ==
    /\ form.open
    /\ WeaponLoad \in form.pending
    /\ \E w \in {FetchWeaponById(form.weaponId)} :
         IF rejects \/ w = JsonNull
         THEN form' = [form EXCEPT !.pending = @ \ {WeaponLoad}, !.failed = TRUE]
         ELSE \E progs \in Orders(w.programs) :
                form' = [form EXCEPT
                    !.pending = @ \ {WeaponLoad},
                    !.weapon = TRUE,
                    !.fields = [f \in DOMAIN EmptyFields |-> w[f]],
                    !.selectedPrograms = InitialSelections(progs)]
    /\ lastCall' = [NoCall EXCEPT !.op = "load", !.id = WeaponLoad, !.ok = ~ rejects]
    /\ UNCHANGED <<organizations, programs, weapons, weapon_programs, seedPromise,
                   hooks>>
    /\ UNCHANGED appVars
    /\ connection' = GetDatabase(connection)

\* useOrganizations' load settles: memberOrganizationIds is a new array, so
\* usePrograms' load is recreated and its effect starts a second load.
SettleOrganizationsLoad(rejects) ==
    /\ form.open
    /\ OrganizationsLoad \in form.pending
    /\ form' =
         IF rejects
         THEN [form EXCEPT !.pending = @ \ {OrganizationsLoad}, !.failed = TRUE]
         ELSE [form EXCEPT
                !.pending = (@ \ {OrganizationsLoad}) \cup {SecondProgramsLoad},
                !.memberOrganizationIds = {o.id : o \in {m \in organizations :
                                                            m.isMember = "1"}}]
    /\ lastCall' = [NoCall EXCEPT !.op = "load", !.id = OrganizationsLoad,
                                  !.ok = ~ rejects]
    /\ UNCHANGED <<organizations, programs, weapons, weapon_programs, seedPromise,
                   hooks>>
    /\ UNCHANGED appVars
    /\ connection' = GetDatabase(connection)

\* A load of usePrograms settles: setPrograms(result), then the effect on
\* [programs].  fetchProgramUsage takes organizationId only, so the
\* allowedOrganizationIds the hook passes restrict nothing.
SettleProgramsLoad(load, rejects) ==
    /\ form.open
    /\ load \in {FirstProgramsLoad, SecondProgramsLoad}
    /\ load \in form.pending
    /\ \E result \in {FetchProgramUsage(NULL)} :
         form' =
            IF rejects
            THEN [form EXCEPT !.pending = @ \ {load}, !.failed = TRUE]
            ELSE LET ids == {result[i].id : i \in DOMAIN result}
                 IN  [form EXCEPT
                        !.pending = @ \ {load},
                        !.programs = ids,
                        !.selectedPrograms = FilterSelections(@, ids)]
    /\ lastCall' = [NoCall EXCEPT !.op = "load", !.id = load, !.ok = ~ rejects]
    /\ UNCHANGED <<organizations, programs, weapons, weapon_programs, seedPromise,
                   hooks>>
    /\ UNCHANGED appVars
    /\ connection' = GetDatabase(connection)

\* The user types a name into the empty name field.
SetDisplayName(name) ==
    /\ FormRendered
    /\ form.fields.displayName = ""
    /\ form' = [form EXCEPT !.fields.displayName = name]
    /\ lastCall' = [NoCall EXCEPT !.op = "setDisplayName"]
    /\ UNCHANGED <<organizations, programs, weapons, weapon_programs, seedPromise,
                   connection, hooks>>
    /\ UNCHANGED appVars

\* The user presses the row of a listed program.
PressProgram(programId) ==
    /\ FormRendered
    /\ programId \in form.programs
    /\ form' = [form EXCEPT
            !.selectedPrograms = ToggleProgramSelection(@, programId),
            !.touched = TRUE]
    /\ lastCall' = [NoCall EXCEPT !.op = "toggleProgramSelection", !.id = programId]
    /\ UNCHANGED <<organizations, programs, weapons, weapon_programs, seedPromise,
                   connection, hooks>>
    /\ UNCHANGED appVars

\* The user flips the approved switch of a selected program.
SwitchApproved(programId, isApproved) ==
    /\ FormRendered
    /\ programId \in form.programs
    /\ programId \in DOMAIN form.selectedPrograms
    /\ form' = [form EXCEPT
            !.selectedPrograms = SetProgramApproved(@, programId, isApproved),
            !.touched = TRUE]
    /\ lastCall' = [NoCall EXCEPT !.op = "setProgramApproved", !.id = programId]
    /\ UNCHANGED <<organizations, programs, weapons, weapon_programs, seedPromise,
                   connection, hooks>>
    /\ UNCHANGED appVars

\* The user flips the reserve switch of a selected program.
SwitchReserve(programId, isReserve) ==
    /\ FormRendered
    /\ programId \in form.programs
    /\ programId \in DOMAIN form.selectedPrograms
    /\ form' = [form EXCEPT
            !.selectedPrograms = SetProgramReserve(@, programId, isReserve),
            !.touched = TRUE]
    /\ lastCall' = [NoCall EXCEPT !.op = "setProgramReserve", !.id = programId]
    /\ UNCHANGED <<organizations, programs, weapons, weapon_programs, seedPromise,
                   connection, hooks>>
    /\ UNCHANGED appVars

\* What is left of a form that router.back() has taken off the screen: what it was
\* opened for, and whether a program control was used.
ClosedForm(f) ==
    [NoForm EXCEPT !.weaponId = f.weaponId, !.touched = f.touched, !.before = f.before,
                   !.opens = f.opens]

\* handleSave: nothing without a name; else upsertWeapon(payload), and when it
\* resolved refreshPrograms() and router.back(); when it rejected the form stays.
HandleSave(failAt) ==
    /\ FormRendered
    /\ form.fields.displayName # ""
    /\ LET payload == [id |-> IF form.weaponId # NULL THEN form.weaponId
                              ELSE NewWeaponId,
                       fields |-> form.fields,
                       programs |-> PayloadPrograms(form.selectedPrograms)]
       IN  /\ failAt \in 0..(Len(payload.programs) + 2)
           /\ form.weaponId = NULL => \A w \in weapons : w.id # NewWeaponId
           /\ \E r \in {RunWithinTransaction(Database,
                                             UpsertWeaponSteps(Database, payload),
                                             failAt)} :
                /\ weapons' = r.db.weapons
                /\ weapon_programs' = r.db.weapon_programs
                /\ form' = IF r.ok THEN ClosedForm(form) ELSE form
                /\ lastCall' = [NoCall EXCEPT !.op = "handleSave", !.ok = r.ok,
                                              !.id = payload.id,
                                              !.input = payload]
    /\ UNCHANGED <<organizations, programs, seedPromise, hooks>>
    /\ UNCHANGED appVars
    /\ ~ connection.stale
    /\ connection' = GetDatabase(connection)

\* The links weapon-001 can have when the form opens: upsertWeapon writes any
\* status and any reserve flag it is given.
FormLinkRows ==
    {[weaponId |-> "weapon-001", programId |-> p, isReserve |-> r, status |-> st] :
        p \in {"1", "158"}, r \in {0, 1}, st \in Statuses} \
    {[weaponId |-> "weapon-001", programId |-> p, isReserve |-> 1, status |-> "proposed"] :
        p \in {"1", "158"}}

\* The stores of the form specification: the seeded store with the links of
\* weapon-001 replaced and with one or both organizations marked as member.
FormStores ==
    LET seeded == SeedDatabase(EmptyStore)
        others == {wp \in seeded.weapon_programs : wp.weaponId # "weapon-001"}
        linkSets == {ls \in SUBSET FormLinkRows :
                        \A a, b \in ls : a.programId = b.programId => a = b}
        memberships == {UpdateAllMemberships(seeded.organizations, TRUE),
                        UpdateMembership(seeded.organizations, "988539155", TRUE)}
    IN  {[seeded EXCEPT !.weapon_programs = ls \cup others, !.organizations = orgs] :
            ls \in linkSets, orgs \in memberships}

InitForm ==
    /\ \E st \in FormStores :
            /\ columns = st.columns
            /\ organizations = st.organizations
            /\ programs = st.programs
            /\ weapons = st.weapons
            /\ weapon_programs = st.weapon_programs
    /\ seedPromise = "resolved"
    /\ lastCall = NoCall
    /\ seeding = [step |-> SeedSteps + 1, runs |-> 1, calls |-> 1, returned |-> {1},
                  phases |-> {NULL}, hadWeapons |-> FALSE]
    /\ layout = [isMounted |-> TRUE, databaseReady |-> TRUE, pending |-> FALSE]
    /\ storage = NoBackups
    /\ connection = GetDatabase(NoConnection)
    /\ hooks = NoHooks
    /\ form = NoForm

\* The programs whose rows the user presses: one of DFS and two of DSSN.
PressedProgramIds == {"1", "158", "160"}

NextForm ==
    \/ \E weaponId \in {NULL, "weapon-001"} : OpenForm(weaponId)
    \/ \E rejects \in BOOLEAN : SettleWeaponLoad(rejects)
    \/ \E rejects \in BOOLEAN : SettleOrganizationsLoad(rejects)
    \/ \E load \in {FirstProgramsLoad, SecondProgramsLoad} : \E rejects \in BOOLEAN :
            SettleProgramsLoad(load, rejects)
    \/ SetDisplayName("cz 75")
    \/ \E programId \in PressedProgramIds : PressProgram(programId)
    \/ \E programId \in PressedProgramIds : \E v \in BOOLEAN :
            SwitchApproved(programId, v)
    \/ \E programId \in PressedProgramIds : \E v \in BOOLEAN :
            SwitchReserve(programId, v)
    \/ \E failAt \in 0..(Len(ProgramIdOrder) + 2) : HandleSave(failAt)

SpecForm == InitForm /\ [][NextForm]_vars

(***************************************************************************)
(* Properties.                                                             *)
(***************************************************************************)
LinksOf(weaponId) == {wp \in weapon_programs : wp.weaponId = weaponId}
ApprovedLinksOf(weaponId) == {wp \in LinksOf(weaponId) : wp.status = "approved"}

UpsertDone == lastCall.op = "upsertWeapon" /\ lastCall.ok

\* The row a submitted list asks for under each programId it names: the values of
\* the last selection naming it, a status left out read as 'approved' and an
\* isReserve left out as 0.
SubmittedRows(weaponId, ps) ==
    {[weaponId  |-> weaponId,
      programId |-> ps[i].programId,
      status    |-> IF "status" \in DOMAIN ps[i] THEN ps[i].status ELSE "approved",
      isReserve |-> IF "isReserve" \in DOMAIN ps[i] /\ ps[i].isReserve = TRUE THEN 1 ELSE 0] :
        i \in {k \in DOMAIN ps : \A j \in DOMAIN ps : j > k => ps[j].programId # ps[k].programId}}

SubmittedApproved(ps) == {r \in SubmittedRows(NULL, ps) : r.status = "approved"}

\* C1 as stated: after every upsertWeapon call, whatever list it submitted, at most
\* one weapon_programs row of the upserted weapon has status 'approved'.
C1_AtMostOneApprovedAnyList ==
    UpsertDone => Cardinality(ApprovedLinksOf(lastCall.id)) <= 1

\* C1 amended: after an upsertWeapon call, the approved rows of the upserted weapon
\* are the programIds the list submitted as approved (status 'approved' or left
\* out); so at most one row is approved whenever the list names at most one
\* programId as approved.
C1_ApprovedRowsAreSubmitted ==
    UpsertDone =>
        /\ {wp.programId : wp \in ApprovedLinksOf(lastCall.id)}
             = {r.programId : r \in SubmittedApproved(lastCall.input.programs)}
        /\ Cardinality(SubmittedApproved(lastCall.input.programs)) <= 1
             => Cardinality(ApprovedLinksOf(lastCall.id)) <= 1

C1_Witness ==
    /\ UpsertDone
    /\ Len(lastCall.input.programs) = 2
    /\ Cardinality(SubmittedApproved(lastCall.input.programs)) = 1
    /\ Cardinality(LinksOf(lastCall.id)) = 2
    /\ Cardinality(ApprovedLinksOf(lastCall.id)) = 1

ReserveImpliesApproved == \A wp \in weapon_programs : wp.isReserve = 1 => wp.status = "approved"

\* C2 as stated: in every state reached by ensureSeeded, upsertWeapon and
\* deleteWeapon, every weapon_programs row with isReserve = 1 has status 'approved'.
C2_ReserveImpliesApproved == ReserveImpliesApproved

ReserveOnlyOnApproved(ps) ==
    \A r \in SubmittedRows(NULL, ps) : r.isReserve = 1 => r.status = "approved"

\* C2 amended: ensureSeeded, deleteWeapon and every upsertWeapon call whose list
\* carries isReserve only on selections submitted as approved keep
\* reserve-implies-approved true of all persisted rows (it holds of the empty store).
C2_ReservePreserved ==
    [][ (/\ ReserveImpliesApproved
         /\ (lastCall'.op = "upsertWeapon" /\ lastCall'.ok)
                => ReserveOnlyOnApproved(lastCall'.input.programs))
        => ReserveImpliesApproved' ]_vars

C2_Witness ==
    /\ UpsertDone
    /\ ReserveOnlyOnApproved(lastCall.input.programs)
    /\ \E wp \in LinksOf(lastCall.id) : wp.isReserve = 1
    /\ \E wp \in weapon_programs : wp.weaponId # lastCall.id /\ wp.isReserve = 0
    /\ ReserveImpliesApproved

\* C3: a completed upsertWeapon(input) leaves under input.id exactly the submitted
\* rows, one per submitted programId (none of the earlier rows, none at all for an
\* empty list), and leaves the rows of every other weapon as they were.
C3_FullReplace ==
    [][ (lastCall'.op = "upsertWeapon" /\ lastCall'.ok) =>
            /\ {wp \in weapon_programs' : wp.weaponId = lastCall'.id}
                 = SubmittedRows(lastCall'.id, lastCall'.input.programs)
            /\ (lastCall'.input.programs = <<>>
                    => ~ \E wp \in weapon_programs' : wp.weaponId = lastCall'.id)
            /\ {wp \in weapon_programs' : wp.weaponId # lastCall'.id}
                 = {wp \in weapon_programs : wp.weaponId # lastCall'.id} ]_vars

C3_Witness ==
    /\ UpsertDone
    /\ lastCall.existed
    /\ lastCall.input.programs = <<>>
    /\ LinksOf(lastCall.id) = {}
    /\ \E wp \in weapon_programs : wp.weaponId # lastCall.id

NullableColumns ==
    {"manufacturer", "model", "serialNumber", "acquisitionDate", "acquisitionPrice",
     "weaponCardRef", "notes", "operationMode", "caliber", "loanContactName",
     "loanStartDate", "loanEndDate"}

\* C4: after upsertWeapon(input) on an id that existed, every stored column of that
\* weapon other than id holds input's value, NULL for an optional field left out.
C4_EveryFieldReplaced ==
    (UpsertDone /\ lastCall.existed) =>
        \A w \in weapons : w.id = lastCall.id =>
            LET f == lastCall.input.fields
            IN  /\ w.displayName = f.displayName
                /\ w.type = f.type
                /\ w.ownershipStatus = f.ownershipStatus
                /\ \A c \in NullableColumns :
                        w[c] = IF c \in DOMAIN f THEN f[c] ELSE NULL

Ids(result) == {result[i].id : i \in DOMAIN result}

\* A query result lists exactly the weapons of `ids`, each of them once.
ListsOnce(result, ids) == Ids(result) = ids /\ Len(result) = Cardinality(ids)

AllWeaponIds == {w.id : w \in weapons}
NoFilters == [reserveFilter |-> "any"]
KnownLinksOf(weaponId) == {wp \in LinksOf(weaponId) : \E p \in programs : p.id = wp.programId}

\* C6 as stated: fetchWeapons without filters returns each weapon once, its programs
\* array as long as the number of weapon_programs rows of that weapon, also when a
\* row's programId matches no programs row.
C6_ProgramsLengthIsLinkCount ==
    LET result == FetchWeapons(NoFilters)
    IN  /\ ListsOnce(result, AllWeaponIds)
        /\ \A i \in DOMAIN result :
                Len(result[i].programs) = Cardinality(LinksOf(result[i].id))

\* C6 amended: fetchWeapons without filters returns each weapon once, its programs
\* array (empty for a weapon without links) holding one entry for each of the
\* weapon's links whose programId matches a programs row; a link to a missing
\* program adds no entry.
C6_ProgramsAreKnownLinks ==
    LET result == FetchWeapons(NoFilters)
    IN  /\ ListsOnce(result, AllWeaponIds)
        /\ \A i \in DOMAIN result :
                /\ Len(result[i].programs) = Cardinality(KnownLinksOf(result[i].id))
                /\ {[programId |-> result[i].programs[k].programId,
                     status    |-> result[i].programs[k].status,
                     isReserve |-> result[i].programs[k].isReserve] :
                        k \in DOMAIN result[i].programs}
                     = {[programId |-> wp.programId, status |-> wp.status,
                         isReserve |-> (wp.isReserve = 1)] :
                            wp \in KnownLinksOf(result[i].id)}

C6_Witness ==
    LET result == FetchWeapons(NoFilters)
    IN  /\ Len(result) = 2
        /\ \E i \in DOMAIN result :
                /\ Cardinality(LinksOf(result[i].id)) = 2
                /\ Len(result[i].programs) = 1
        /\ \E i \in DOMAIN result :
                /\ LinksOf(result[i].id) = {}
                /\ result[i].programs = <<>>

WeaponsInOrganization(organizationId) ==
    {w.id : w \in {x \in weapons :
        \E wp \in LinksOf(x.id) : \E p \in programs :
            p.id = wp.programId /\ p.organizationId = organizationId}}

\* C7: fetchWeapons filtered by organizationId returns, once each, exactly the
\* weapons with at least one link to a program of that organization, however many
\* such links a weapon has.
C7_OrganizationFilter ==
    \A o \in OrganizationIds :
        ListsOnce(FetchWeapons([organizationId |-> o]), WeaponsInOrganization(o))

C7_Witness ==
    \E o \in OrganizationIds :
        LET result == FetchWeapons([organizationId |-> o])
        IN  /\ Len(result) = 1
            /\ Cardinality(weapons) = 2
            /\ Cardinality({wp \in LinksOf(result[1].id) :
                    \E p \in programs : p.id = wp.programId /\ p.organizationId = o}) = 2
            /\ \E w \in weapons : w.id # result[1].id /\ LinksOf(w.id) # {}

WeaponsWithReserve == {w.id : w \in {x \in weapons : \E wp \in LinksOf(x.id) : wp.isReserve = 1}}

\* C8: reserveOnly returns exactly the weapons with a link whose isReserve is 1,
\* nonReserve exactly the weapons with no such link (those without links included);
\* the two results are disjoint and together are the unfiltered result.
C8_ReservePartition ==
    LET only == FetchWeapons([reserveFilter |-> "reserveOnly"])
        non == FetchWeapons([reserveFilter |-> "nonReserve"])
        all == FetchWeapons(NoFilters)
    IN  /\ ListsOnce(only, WeaponsWithReserve)
        /\ ListsOnce(non, AllWeaponIds \ WeaponsWithReserve)
        /\ Ids(only) \cap Ids(non) = {}
        /\ Ids(only) \cup Ids(non) = Ids(all)
        /\ Len(only) + Len(non) = Len(all)

C8_Witness ==
    LET only == FetchWeapons([reserveFilter |-> "reserveOnly"])
        non == FetchWeapons([reserveFilter |-> "nonReserve"])
    IN  /\ Len(only) = 1
        /\ Len(non) = 1
        /\ \E wp \in LinksOf(only[1].id) : wp.isReserve = 0
        /\ LinksOf(non[1].id) = {}

Absent == "absent"

\* The filter objects a caller can pass: each property given or left out.
FilterOf(o, p, r) ==
    LET fo == IF o = Absent THEN <<>> ELSE [organizationId |-> o]
        fp == IF p = Absent THEN <<>> ELSE [programId |-> p]
        fr == IF r = Absent THEN <<>> ELSE [reserveFilter |-> r]
    IN  fo @@ fp @@ fr

OrganizationChoices == OrganizationIds \cup {Absent}
ProgramChoices == ProgramIds \cup {Absent}
ReserveChoices == {"any", "reserveOnly", "nonReserve", Absent}

\* C9: with several filters given, fetchWeapons returns the intersection of the
\* results of each filter applied alone; programId alone returns exactly the
\* weapons with a link to that programId.
C9_FiltersIntersect ==
    /\ LET byOrganization == [o \in OrganizationChoices |->
                                    Ids(FetchWeapons(FilterOf(o, Absent, Absent)))]
            byProgram == [p \in ProgramChoices |->
                                    Ids(FetchWeapons(FilterOf(Absent, p, Absent)))]
            byReserve == [r \in ReserveChoices |->
                                    Ids(FetchWeapons(FilterOf(Absent, Absent, r)))]
       IN  \A o \in OrganizationChoices : \A p \in ProgramChoices : \A r \in ReserveChoices :
                ListsOnce(FetchWeapons(FilterOf(o, p, r)),
                          byOrganization[o] \cap byProgram[p] \cap byReserve[r])
    /\ \A p \in ProgramIds :
            ListsOnce(FetchWeapons([programId |-> p]),
                      {w.id : w \in {x \in weapons :
                            \E wp \in LinksOf(x.id) : wp.programId = p}})

C9_Witness ==
    \E o \in OrganizationIds : \E p \in ProgramIds :
        LET result == Ids(FetchWeapons(FilterOf(o, p, "reserveOnly")))
        IN  /\ Cardinality(result) = 1
            /\ Cardinality(Ids(FetchWeapons(FilterOf(o, Absent, Absent)))) = 2
            /\ Cardinality(Ids(FetchWeapons(FilterOf(Absent, Absent, "reserveOnly")))) = 2
            /\ Ids(FetchWeapons(FilterOf(Absent, p, Absent))) = result

UsageOf(result, programId) ==
    LET i == CHOOSE k \in DOMAIN result : result[k].id = programId IN result[i]

\* C10: fetchProgramUsage returns one row per program (of the organization asked
\* for, of all when none is); weaponCount is the number of the program's links with
\* status 'approved', reserveCount the number of those that also have isReserve 1;
\* pending and proposed links count towards neither, a program without links has 0
\* and 0.
C10_ProgramUsageCounts ==
    \A o \in OrganizationIds \cup {NULL} :
        LET result == FetchProgramUsage(o)
            asked == {p \in programs : o = NULL \/ p.organizationId = o}
        IN  /\ ListsOnce(result, {p.id : p \in asked})
            /\ \A i \in DOMAIN result :
                LET links == {wp \in weapon_programs : wp.programId = result[i].id}
                IN  /\ result[i].weaponCount
                         = Cardinality({wp \in links : wp.status = "approved"})
                    /\ result[i].reserveCount
                         = Cardinality({wp \in links : wp.status = "approved" /\ wp.isReserve = 1})
                    /\ links = {} => result[i].weaponCount = 0 /\ result[i].reserveCount = 0

C10_Witness ==
    LET result == FetchProgramUsage(NULL)
    IN  /\ \E p \in programs :
            /\ \E wp \in weapon_programs :
                    wp.programId = p.id /\ wp.status = "pending" /\ wp.isReserve = 1
            /\ UsageOf(result, p.id).weaponCount = 1
            /\ UsageOf(result, p.id).reserveCount = 0
        /\ \E p \in programs :
            /\ UsageOf(result, p.id).weaponCount = 1
            /\ UsageOf(result, p.id).reserveCount = 1
        /\ \E p \in programs :
            /\ ~ \E wp \in weapon_programs : wp.programId = p.id
            /\ UsageOf(result, p.id).weaponCount = 0

\* C11: a completed deleteWeapon(id) removes the weapon row of that id and the
\* weapon_programs rows of that weaponId, leaves the other weapon rows, the other
\* weapons' link rows, the organizations and the programs as they were, and
\* changes no table when no weapon has that id.
C11_DeleteFrame ==
    [][ (lastCall'.op = "deleteWeapon" /\ lastCall'.ok) =>
            /\ weapons' = {w \in weapons : w.id # lastCall'.id}
            /\ weapon_programs' = {wp \in weapon_programs : wp.weaponId # lastCall'.id}
            /\ organizations' = organizations
            /\ programs' = programs
            /\ (~ lastCall'.existed) =>
                    weapons' = weapons /\ weapon_programs' = weapon_programs ]_vars

\* An organization row without its isMember field.
ReferenceFields(o) == [f \in DOMAIN o \ {"isMember"} |-> o[f]]

\* C12: setOrganizationMembership(id, v) changes only the isMember field of the
\* organization of that id, nothing when there is none;
\* setAllOrganizationMemberships(v) changes only isMember fields; neither changes
\* a row of programs, weapons or weapon_programs, nor another organization field.
C12_MembershipFrame ==
    [][ (lastCall'.op \in {"setOrganizationMembership", "setAllOrganizationMemberships"}) =>
            /\ programs' = programs
            /\ weapons' = weapons
            /\ weapon_programs' = weapon_programs
            /\ columns' = columns
            /\ {ReferenceFields(o) : o \in organizations'}
                 = {ReferenceFields(o) : o \in organizations}
            /\ Cardinality(organizations') = Cardinality(organizations)
            /\ lastCall'.op = "setOrganizationMembership" =>
                    /\ {o \in organizations' : o.id # lastCall'.id}
                         = {o \in organizations : o.id # lastCall'.id}
                    /\ (~ lastCall'.existed) => organizations' = organizations ]_vars

C12_Witness ==
    /\ lastCall.op = "setOrganizationMembership"
    /\ lastCall.existed
    /\ \E o \in organizations : o.id = lastCall.id /\ o.isMember = "1"
    /\ \E o \in organizations : o.id # lastCall.id /\ o.isMember = "0"
    /\ weapons # {} /\ weapon_programs # {} /\ programs # {}

SeedStepDone == lastCall.op = "seedDatabase" /\ lastCall.ok

\* C13: no step of a seedDatabase run changes the isMember value an organization
\* row has: a member stays a member through a later launch; isMember 0 is given
\* only to the rows the run inserts (and, by the added column's default, to rows
\* that had no isMember column).
C13_SeedKeepsMembership ==
    [][ (lastCall'.op = "seedDatabase" /\ lastCall'.ok) =>
            /\ \A o \in organizations : "isMember" \in DOMAIN o =>
                    \E n \in organizations' : n.id = o.id /\ n.isMember = o.isMember
            /\ \A n \in organizations' : "isMember" \in DOMAIN n =>
                    \/ \E o \in organizations :
                            o.id = n.id /\ "isMember" \in DOMAIN o /\ o.isMember = n.isMember
                    \/ /\ n.isMember = "0"
                       /\ \A o \in organizations : o.id = n.id => "isMember" \notin DOMAIN o
      ]_vars

C13_Witness ==
    /\ SeedStepDone
    /\ seedPromise = "resolved"
    /\ seeding.phases = {NULL}
    /\ \E o \in organizations : o.isMember = "1"
    /\ \E o \in organizations : o.isMember = "0"
    /\ organizations # RestoredFileStore.organizations
    /\ weapons # {}

\* C14: once seedDatabase has completed, every bundled organization and every
\* bundled program is stored with the bundled reference values, also when a row of
\* that id was there before with other values.
C14_ReferenceValuesReasserted ==
    seedPromise = "resolved" =>
        /\ \A seed \in OrganizationSeeds :
                \E o \in organizations : o.id = seed.id /\ ReferenceFields(o) = seed
        /\ \A seed \in ProgramSeeds : seed \in programs

\* C15: a seedDatabase run inserts demonstration weapons and demonstration links
\* only when it finds the weapons table empty; when it finds a weapon row, it
\* inserts no weapon row and no link row, even if weapon_programs is empty.
C15_DemoDataOnlyWithoutWeapons ==
    [][ (lastCall'.op = "seedDatabase" /\ lastCall'.ok) =>
            /\ (seeding.step = 7 /\ TableHasRows(weapons)) => weapons' = weapons
            /\ (seeding.step = 8 /\ seeding.hadWeapons) =>
                    weapon_programs' = weapon_programs ]_vars

\* C16: after ensureSeeded has completed on an initially empty store, every weapon
\* has at most one weapon_programs row with status 'approved'.
C16_SeededOneApproved ==
    lastCall.op = "ensureSeeded" =>
        \A w \in weapons : Cardinality(ApprovedLinksOf(w.id)) <= 1

\* C17: runMigrations run twice in succession: the second run executes no ALTER
\* TABLE and leaves columns and rows (every isMember value included) as the first
\* run left them.
C17_MigrationsIdempotent ==
    LET first == MigrationResult(CreateTables(Store))
        second == MigrationResult(first.store)
    IN  /\ second.alters = 0
        /\ second.store = first.store

C17_Witness ==
    /\ seedPromise = "pending"
    /\ seeding.step = 2
    /\ MigrationResult(Store).alters = 7
    /\ organizations # {}
    /\ weapons # {}
    /\ \A o \in MigrationResult(Store).store.organizations : o.isMember = "0"
    /\ \A w \in MigrationResult(Store).store.weapons : w.ownershipStatus = "own"

\* C18: however many ensureSeeded calls a process makes, before, during or after
\* the seeding run, seedDatabase is started at most once and every call returns
\* the same promise.
C18_SingleFlight ==
    /\ seeding.runs <= 1
    /\ Cardinality(seeding.returned) <= 1
    /\ seeding.calls > 0 => seeding.runs = 1 /\ seeding.returned = {1}

C18_Witness ==
    /\ seeding.calls = 3
    /\ seeding.phases = {NULL, "pending", "resolved"}
    /\ seeding.runs = 1

\* C19: when a step of seedDatabase has failed, RootLayout's databaseReady is not
\* true; the screens that query the repository are rendered only with
\* databaseReady, which is set only once seeding has resolved.
C19_FailedSeedNeverReady ==
    /\ seedPromise = "rejected" => ~ layout.databaseReady
    /\ layout.databaseReady => seedPromise = "resolved"
    /\ lastCall.op \in {"upsertWeapon", "deleteWeapon", "setOrganizationMembership",
                        "setAllOrganizationMemberships"} => layout.databaseReady

C19_Witness ==
    /\ seedPromise = "rejected"
    /\ layout.isMounted
    /\ ~ layout.pending
    /\ ~ layout.databaseReady
    /\ seeding.calls = 2
    /\ seeding.step = 5

\* C20: every restoreDatabase call that returned has been followed by exactly one
\* RESTORED emission, and a call that threw by none: the events emitted are as
\* many as the restores that succeeded.
C20_RestoreEmitsOnce ==
    storage.emitted = storage.restored

\* C26: once seedDatabase has rejected, every step of the process leaves the
\* promise rejected, starts no seedDatabase run and has ensureSeeded return that
\* same promise; only a restart of the process clears it.
C26_RejectionIsKept ==
    [][ seedPromise = "rejected" =>
            \/ /\ seedPromise' = "rejected"
               /\ seeding'.runs = seeding.runs
               /\ seeding'.step = seeding.step
               /\ seeding'.returned = {seeding.runs}
               /\ Store' = Store
            \/ /\ seedPromise' = NULL
               /\ seeding' = NotSeeding
               /\ layout' = NotMounted ]_vars

C26_Witness ==
    /\ seedPromise = "rejected"
    /\ lastCall.op = "ensureSeeded"
    /\ seeding.calls = 3
    /\ seeding.phases = {NULL, "rejected"}
    /\ seeding.runs = 1
    /\ layout.pending

(***************************************************************************)
(* exportWeaponsToCsv (services/storage).                                  *)
(***************************************************************************)
\* Mutant: the links of every status are exported.
ApprovedProgramsAnyStatus(weapon) == weapon.programs

\* weapon.programs.filter((program) => program.status === 'approved')
ApprovedPrograms(weapon) ==
    SelectSeq(weapon.programs, LAMBDA program : program.status = "approved")

\* The cells of a weapon's row that come from its links: programs holds the names
\* that are joined with '; ', in their order, reserve the mark.
ExportRow(weapon) ==
    LET approvedPrograms == ApprovedPrograms(weapon)
    IN  [id       |-> weapon.id,
         programs |-> [i \in DOMAIN approvedPrograms |-> approvedPrograms[i].programName],
         reserve  |-> IF \E i \in DOMAIN approvedPrograms : approvedPrograms[i].isReserve
                      THEN "X" ELSE ""]

\* exportWeaponsToCsv: throws when fetchWeapons() returns no weapon, otherwise
\* writes one row for each weapon returned.
ExportWeaponsToCsv ==
    LET result == FetchWeapons(NoFilters)
    IN  IF Len(result) = 0 THEN [ok |-> FALSE, rows |-> <<>>]
        ELSE [ok |-> TRUE, rows |-> [i \in DOMAIN result |-> ExportRow(result[i])]]

\* The export button of the settings screen.
ExportWeapons ==
    /\ layout.databaseReady
    /\ lastCall.op # "exportWeaponsToCsv"
    /\ lastCall' = [NoCall EXCEPT !.op = "exportWeaponsToCsv",
                                  !.ok = ExportWeaponsToCsv.ok,
                                  !.input = ExportWeaponsToCsv.rows]
    /\ UNCHANGED <<organizations, programs, weapons, weapon_programs, seedPromise>>
    /\ UNCHANGED appVars
    /\ UsesDatabase

\* The links weapon-001 is given in the stores of the export specification: to
\* each of two bundled programs and of a program without a row, no link or a link
\* of either status, reserve or not.
ExportLinkRows ==
    {[weaponId |-> "weapon-001", programId |-> p, isReserve |-> r, status |-> st] :
        p \in {"158", "160", UnknownProgramId}, r \in {0, 1},
        st \in {"approved", "pending"}}

\* The stores of the export specification: the seeded store with the links of
\* weapon-001 replaced, which upsertWeapon calls can produce (foreign keys are not
\* enforced), and the seeded store with its weapons deleted.
ExportStores ==
    LET seeded == SeedDatabase(EmptyStore)
        others == {wp \in seeded.weapon_programs : wp.weaponId # "weapon-001"}
        linkSets == {ls \in SUBSET ExportLinkRows :
                        \A a, b \in ls : a.programId = b.programId => a = b}
    IN  {[seeded EXCEPT !.weapon_programs = ls \cup others] : ls \in linkSets}
        \cup {[seeded EXCEPT !.weapons = {}, !.weapon_programs = {}]}

InitExport ==
    /\ \E st \in ExportStores :
            /\ columns = st.columns
            /\ organizations = st.organizations
            /\ programs = st.programs
            /\ weapons = st.weapons
            /\ weapon_programs = st.weapon_programs
    /\ seedPromise = "resolved"
    /\ lastCall = NoCall
    /\ seeding = [step |-> SeedSteps + 1, runs |-> 1, calls |-> 1, returned |-> {1},
                  phases |-> {NULL}, hadWeapons |-> FALSE]
    /\ layout = [isMounted |-> TRUE, databaseReady |-> TRUE, pending |-> FALSE]
    /\ storage = NoBackups
    /\ connection = GetDatabase(NoConnection)
    /\ hooks = NoHooks
    /\ form = NoForm

NextExport == ExportWeapons

SpecExport == InitExport /\ [][NextExport]_vars

ExportDone == lastCall.op = "exportWeaponsToCsv"

ProgramNamesOf(links) ==
    {p.name : p \in {q \in programs : \E wp \in links : wp.programId = q.id}}

\* C24 as stated: in each exported row the programs column has one name for each
\* of the weapon's approved links, and reserve is 'X' exactly when one of the
\* weapon's approved links has isReserve set.
C24_ExportListsApprovedLinks ==
    ExportDone =>
        \A i \in DOMAIN lastCall.input :
            LET row == lastCall.input[i]
                approved == ApprovedLinksOf(row.id)
            IN  /\ Len(row.programs) = Cardinality(approved)
                /\ (row.reserve = "X") <=> (\E wp \in approved : wp.isReserve = 1)

\* C24 amended: in each exported row the programs column has one name for each of
\* the weapon's approved links whose programId matches a programs row, and no
\* other; reserve is 'X' exactly when one of those links has isReserve set, and
\* empty otherwise.
C24_ExportListsKnownApprovedLinks ==
    ExportDone =>
        /\ lastCall.ok <=> weapons # {}
        /\ Len(lastCall.input) = Cardinality(weapons)
        /\ \A i \in DOMAIN lastCall.input :
                LET row == lastCall.input[i]
                    approved == ApprovedLinksOf(row.id) \cap KnownLinksOf(row.id)
                IN  /\ Len(row.programs) = Cardinality(approved)
                    /\ SeqToSet(row.programs) = ProgramNamesOf(approved)
                    /\ row.reserve = (IF \E wp \in approved : wp.isReserve = 1
                                      THEN "X" ELSE "")

C24_Witness ==
    /\ ExportDone
    /\ lastCall.ok
    /\ \E i \in DOMAIN lastCall.input :
            LET row == lastCall.input[i]
            IN  /\ Len(row.programs) = 1
                /\ row.reserve = ""
                /\ \E wp \in LinksOf(row.id) : wp.status = "pending" /\ wp.isReserve = 1
                /\ \E wp \in LinksOf(row.id) :
                        /\ wp.status = "approved" /\ wp.isReserve = 1
                        /\ wp.programId = UnknownProgramId
    /\ \E i \in DOMAIN lastCall.input :
            LET row == lastCall.input[i]
            IN  row.reserve = "" /\ Len(row.programs) = 2

RestoreDone == lastCall.op = "restoreDatabase"

\* C21: at the moment restoreDatabase deletes or copies over the store file, the
\* connection has been closed and dbInstance is null.
C21_ClosedBeforeOverwrite ==
    [][ (lastCall'.op = "restoreDatabase" /\ (lastCall'.ok \/ lastCall'.input = "copy")) =>
            connection.dbInstance = 0 /\ ~ connection'.stale ]_vars

\* C23: a restoreDatabase call in which no file operation fails rejects with 'No
\* backups found' when there is no backup file and with 'Selected backup not
\* found' when sourcePath is the path of none, the store file being left as it
\* was; otherwise it succeeds, also when there was no store file, and the store
\* file then equals the selected backup: the one sourcePath names, else the most
\* recent.
C23_RestoreSelection ==
    [][ (lastCall'.op = "restoreDatabase" /\ lastCall'.input \notin {"list", "delete", "copy"}) =>
            LET options == [sourcePath |-> lastCall'.id]
                files == storage.backups
                named == options.sourcePath # NoSourcePath
                matching == {i \in DOMAIN files : named /\ files[i].path = options.sourcePath}
            IN  /\ files = <<>> =>
                        /\ ~ lastCall'.ok
                        /\ lastCall'.input = "No backups found"
                        /\ Store' = Store
                /\ (files # <<>> /\ named /\ matching = {}) =>
                        /\ ~ lastCall'.ok
                        /\ lastCall'.input = "Selected backup not found"
                        /\ Store' = Store
                /\ (files # <<>> /\ named /\ matching # {}) =>
                        /\ lastCall'.ok
                        /\ \A i \in matching : Store' = files[i].store
                /\ (files # <<>> /\ ~ named) =>
                        /\ lastCall'.ok
                        /\ Store' = files[Len(files)].store
                /\ storage'.backups = files ]_vars

C23_Witness ==
    /\ RestoreDone
    /\ lastCall.ok
    /\ ~ lastCall.existed
    /\ Len(storage.backups) = 2
    /\ lastCall.id = BackupFileNames[1]
    /\ Store = storage.backups[1].store
    /\ storage.backups[1].store # storage.backups[2].store

\* C29: a restoreDatabase call that fails, at whatever step, leaves the store file
\* in existence with the content it had before the call.
C29_FailedRestoreKeepsFile ==
    [][ (lastCall'.op = "restoreDatabase" /\ ~ lastCall'.ok /\ DatabaseFileExists(Store)) =>
            Store' = Store ]_vars

\* C27: getDatabase never returns a handle whose closeAsync has started, and with
\* no closeDatabase call in progress it returns the handle dbInstance already
\* holds.
C27_NeverAClosingHandle ==
    [][ lastCall'.op = "getDatabase" =>
            /\ connection'.returned \notin connection'.closing
            /\ (connection.closers = <<>> /\ connection.dbInstance # 0) =>
                    connection'.returned = connection.dbInstance ]_vars

\* C22: a mounted hook holds exactly one RESTORED subscription and an unmounted
\* one none, also after filter changes; a RESTORED emission starts one load in
\* every hook mounted at that time and none in a hook that is not mounted.
C22_OneSubscriptionPerHook ==
    [][ /\ \A h \in HookNames :
                hooks'[h].subscriptions = IF hooks'[h].mounted THEN 1 ELSE 0
        /\ lastCall'.op = "emitRestored" =>
                \A h \in HookNames :
                    /\ hooks'[h].started =
                            hooks[h].started + (IF hooks[h].mounted THEN 1 ELSE 0)
                    /\ ~ hooks[h].mounted => hooks'[h] = hooks[h] ]_vars

C22_Witness ==
    /\ lastCall.op = "emitRestored"
    /\ hooks["useWeapons"].mounted
    /\ hooks["useWeapons"].started = 3
    /\ hooks["useWeapons"].pending = {2, 3}
    /\ ~ hooks["useOrganizations"].mounted
    /\ hooks["useOrganizations"].started = 1

\* C28: in a mounted useWeapons, once every load has settled (none of the later
\* ones having failed) the state holds the rows of the load started last and
\* loading is false; while a load is pending, loading is true.
C28_LatestLoadWins ==
    LET hook == hooks["useWeapons"]
    IN  hook.mounted =>
            /\ (hook.pending = {} /\ ~ hook.failed) =>
                    hook.result = hook.started /\ ~ hook.loading
            /\ hook.pending # {} => hook.loading

(***************************************************************************)
(* The weapon form.                                                        *)
(***************************************************************************)
ApprovedSelections(map) == {id \in DOMAIN map : map[id].isApproved}

SaveDone == lastCall.op = "handleSave" /\ lastCall.ok

\* C25: whatever the form was opened for and whatever rows and switches were
\* pressed and loads have settled since, the selection map has at most one
\* approved entry and no reserve entry that is not approved; and the programs of
\* the payload handleSave hands to upsertWeapon have at most one 'approved' link
\* and no reserve link with another status.
C25_SelectionNormalized ==
    /\ form.open =>
            /\ Cardinality(ApprovedSelections(form.selectedPrograms)) <= 1
            /\ \A id \in DOMAIN form.selectedPrograms :
                    form.selectedPrograms[id].isReserve
                        => form.selectedPrograms[id].isApproved
    /\ lastCall.op = "handleSave" =>
            LET ps == lastCall.input.programs
            IN  /\ Cardinality({i \in DOMAIN ps : ps[i].status = "approved"}) <= 1
                /\ \A i \in DOMAIN ps : ps[i].isReserve => ps[i].status = "approved"

\* A weapon loaded with program 1 approved is saved with program 158 approved
\* and reserve and with program 1 still selected: the approval has moved.
C25_Witness ==
    /\ SaveDone
    /\ form.touched
    /\ \E wp \in form.before : wp.programId = "1" /\ wp.status = "approved"
    /\ \E i, j \in DOMAIN lastCall.input.programs :
            /\ lastCall.input.programs[i] =
                    [programId |-> "158", isReserve |-> TRUE, status |-> "approved"]
            /\ lastCall.input.programs[j] =
                    [programId |-> "1", isReserve |-> FALSE, status |-> "pending"]

\* The links have at most one approved link, reserve on approved links only, and
\* programs of member organizations only.
EditableLinks(links) ==
    /\ Cardinality({wp \in links : wp.status = "approved"}) <= 1
    /\ \A wp \in links : wp.isReserve = 1 => wp.status = "approved"
    /\ \A wp \in links : \E p \in programs : \E o \in organizations :
            p.id = wp.programId /\ o.id = p.organizationId /\ o.isMember = "1"

====
